---------------------------- MODULE Spec2Model ----------------------------
(***************************************************************************)
(* A model of satellite_monitor: the recommendation engine of              *)
(* SmartSatelliteAdvisor with its two callers (advisor.run and the CLI     *)
(* `recommend --json` path), the pass-timing calculators of                *)
(* SatelliteChecker and SatelliteMonitor, and the Location / Area data     *)
(* model.                                                                  *)
(*                                                                         *)
(* Units.  The model is over integers, so the non-integral quantities of   *)
(* the source are scaled:                                                  *)
(*   cost_per_sqkm, cost, max_budget : tenths of a US dollar  (2.5 -> 25)  *)
(*   resolution_m, min_resolution    : centimetres            (0.31 -> 31) *)
(*   datetimes and timedeltas        : minutes                             *)
(*   latitude / longitude            : whole degrees                       *)
(*   cloud cover                     : whole percent                       *)
(* An optional value (Python's None) is the empty set, a present value v   *)
(* is the singleton {v}.                                                   *)
(***************************************************************************)
EXTENDS Integers, Sequences, FiniteSets, TLC

VARIABLES
    \* ---- SmartSatelliteAdvisor and its callers
    pc,               \* position of the `recommend` command
    output_json,      \* the --json flag of the `recommend` command
    area_sqkm,        \* SmartSatelliteAdvisor.area_sqkm
    max_budget,       \* --budget      (optional)
    min_resolution,   \* --resolution  (optional)
    urgency_hours,    \* --urgent      (optional)
    weather,          \* what weather_service.get_weather() returned (optional)
    engine_calls,     \* the weather argument of each get_recommendations call
    frames,           \* the locals of each iteration of the scoring loop
    recommendations,  \* the list get_recommendations returned
    output,           \* what the command presented
    error,            \* the exception that ended the command, "" if none
    \* ---- the system clock, datetime.now(timezone.utc), in minutes
    clock,
    \* ---- SatelliteChecker.calculate_times
    satellite_data,   \* the argument of the latest call (optional)
    times,            \* its locals and result (optional)
    \* ---- SatelliteMonitor.calculate_next_passes
    catalog,          \* SATELLITE_CATALOG, in insertion order
    hours_ahead,      \* the argument of the call
    mon_pc,           \* "idle", "loop" (inside the for / while loops), "done"
    now,              \* the local `now`
    end_time,         \* the local `end_time`
    idx,              \* position of the for loop in the catalog
    next_pass_time,   \* the local `next_pass_time`
    passes,           \* the local `passes`
    passes_cache,     \* SatelliteMonitor.passes_cache
    \* ---- Location and Area
    location,         \* the Location the latest constructor call produced (optional)
    loc_args,         \* the (latitude, longitude) given to that call (optional)
    loc_fresh,        \* no field of `location` was assigned since
    loc_error,        \* the exception of that call, "" if none
    area,             \* the Area the latest constructor call produced (optional)
    area_args,        \* the bounds given to that call (optional)
    area_error,       \* the exception of that call, "" if none
    \* ---- the satellite tables and the instances that copy them
    objects,          \* the heap: the inner dict of every table entry, by address
    default_refs,     \* DEFAULT_SATELLITES: name -> address of the inner dict
    advisor_refs,     \* ADVISOR_SATELLITES: name -> address of the inner dict
    instances,        \* the kind and the `satellites` mapping of each instance
    overriding,       \* the instances through whose mapping an override was made
    writes,           \* the number of overrides made
    \* ---- SatelliteChecker.run
    watch,            \* the `watch` argument of run
    chk_pc,           \* position of run / _display_all
    current_weather,  \* SatelliteChecker.current_weather (optional)
    fetches,          \* calls of weather_service.get_weather in this cycle
    cycle,            \* the display cycle run is in
    table_weather,    \* the local `weather` of create_summary_table
    table,            \* the rows of the summary table, in display order
    panel_weather,    \* the local `weather` of create_recommendations_panel
    panel,            \* the recommendations panel (optional)
    \* ---- SatelliteSpecs.estimate_cost and estimate_total_coverage_cost
    mon_area_sqkm,    \* SatelliteMonitor.area.area_sqkm
    est_args,         \* the constellation and area of the latest estimate_cost (optional)
    est_cost,         \* the (min, max) it returned (optional)
    cov_args,         \* the arguments of the latest estimate_total_coverage_cost (optional)
    costs,            \* the dict it returned (optional)
    cov_error,        \* the exception of that call, "" if none
    \* ---- Area.from_center, Area.center, Area.area_sqkm
    ctr_args,         \* the arguments of the from_center call (optional)
    ctr_area,         \* the Area it built (optional)
    ctr_error,        \* the exception it raised, "" if none
    ctr_center,       \* what area.center returned (optional)
    ctr_sqkm,         \* what area.area_sqkm returned (optional)
    \* ---- WeatherService.get_weather
    api_keys,         \* self.apis[provider]["key"] is not empty
    responses,        \* what the network gives to each request
    svc_pc,           \* position of get_weather
    requests_made,    \* the requests.get calls made, in order
    weather_data,     \* the local weather_data of get_weather (optional)
    svc_result,       \* what get_weather returned (optional)
    svc_error,        \* the exception get_weather raised, "" if none
    \* ---- calculate_next_passes called again
    recalculations,   \* the calls of calculate_next_passes after the first
    earlier_passes,   \* what passes_cache held when the latest of them began
    \* ---- SatelliteChecker.format_time_delta
    fmt_dt,           \* the dt of the latest call, in seconds
    fmt_now,          \* the clock that call sampled, in seconds
    fmt_out           \* the string it returned (optional)

advVars == <<pc, output_json, area_sqkm, max_budget, min_resolution,
             urgency_hours, weather, engine_calls, frames, recommendations,
             output, error>>

timeVars == <<satellite_data, times>>

passVars == <<catalog, hours_ahead, mon_pc, now, end_time, idx,
              next_pass_time, passes, passes_cache>>

locVars == <<location, loc_args, loc_fresh, loc_error, area, area_args,
             area_error>>

tblVars == <<objects, default_refs, advisor_refs, instances, overriding,
             writes>>

\* The components other than the advisor, the calculators and the locations.
chkVars == <<watch, chk_pc, current_weather, fetches, cycle, table_weather,
             table, panel_weather, panel>>

costVars == <<mon_area_sqkm, est_args, est_cost, cov_args, costs, cov_error>>

ctrVars == <<ctr_args, ctr_area, ctr_error, ctr_center, ctr_sqkm>>

svcVars == <<api_keys, responses, svc_pc, requests_made, weather_data,
             svc_result, svc_error>>

recVars == <<recalculations, earlier_passes>>

fmtVars == <<fmt_dt, fmt_now, fmt_out>>

restVars == <<svcVars, recVars, fmtVars>>

extVars == <<tblVars, chkVars, costVars, ctrVars, restVars>>

vars == <<advVars, clock, timeVars, passVars, locVars, extVars>>

None == {}
Some(v) == {v}
Val(o) == CHOOSE v \in o : TRUE

Max(a, b) == IF a >= b THEN a ELSE b
Min(a, b) == IF a <= b THEN a ELSE b

(***************************************************************************)
(* ADVISOR_SATELLITES, in the insertion order of the dict.                 *)
(***************************************************************************)
AdvisorNames ==
    << "Sentinel-1", "ICEYE", "Capella", "Sentinel-2", "PlanetScope",
       "SkySat", "WorldView-3", "Pleiades-Neo", "BlackSky" >>

AdvisorEntry(prov, res, revisit, cost, indep, cloud, daylight, latency) ==
    [ provider |-> prov, resolution_m |-> res, revisit_hours |-> revisit,
      cost_per_sqkm |-> cost, weather_independent |-> indep,
      min_cloud_ok |-> cloud, requires_daylight |-> daylight,
      data_latency_hours |-> latency ]

ADVISOR_SATELLITES ==
    [ n \in { AdvisorNames[i] : i \in DOMAIN AdvisorNames } |->
        CASE n = "Sentinel-1"   -> AdvisorEntry("ESA", 500, 144, 0, TRUE, 100, FALSE, 3)
          [] n = "ICEYE"        -> AdvisorEntry("ICEYE", 25, 24, 1000, TRUE, 100, FALSE, 2)
          [] n = "Capella"      -> AdvisorEntry("Capella Space", 50, 24, 800, TRUE, 100, FALSE, 1)
          [] n = "Sentinel-2"   -> AdvisorEntry("ESA", 1000, 120, 0, FALSE, 30, TRUE, 3)
          [] n = "PlanetScope"  -> AdvisorEntry("Planet", 300, 24, 25, FALSE, 20, TRUE, 2)
          [] n = "SkySat"       -> AdvisorEntry("Planet", 50, 24, 100, FALSE, 15, TRUE, 3)
          [] n = "WorldView-3"  -> AdvisorEntry("Maxar", 31, 24, 250, FALSE, 10, TRUE, 12)
          [] n = "Pleiades-Neo" -> AdvisorEntry("Airbus", 30, 24, 300, FALSE, 10, TRUE, 6)
          [] n = "BlackSky"     -> AdvisorEntry("BlackSky", 100, 24, 45, FALSE, 25, TRUE, 1) ]

(***************************************************************************)
(* cost_str: "FREE", or the cost in whole dollars as "{cost:,.0f}" renders *)
(* it (round half to even; every cost here is a multiple of half a dollar, *)
(* so ties are exact).                                                     *)
(***************************************************************************)
RoundHalfEven(tenths) ==
    LET q == tenths \div 10
        r == tenths % 10
    IN  IF r < 5 THEN q
        ELSE IF r > 5 THEN q + 1
        ELSE IF q % 2 = 0 THEN q ELSE q + 1

CostStr(cost) ==
    IF cost = 0 THEN [free |-> TRUE, dollars |-> 0]
    ELSE [free |-> FALSE, dollars |-> RoundHalfEven(cost)]

(***************************************************************************)
(* The body of the scoring loop, one operator per block of the source.     *)
(* A frame holds the locals score, reasons and weather_suitable.           *)
(***************************************************************************)
WeatherCheckAsOptical(f, sat, w) ==
    LET c == IF w.current_cloud_cover > sat.min_cloud_ok
             THEN [f EXCEPT !.weather_suitable = FALSE,
                            !.score = @ - (w.current_cloud_cover - sat.min_cloud_ok) * 2,
                            !.reasons = Append(@, "Too cloudy")]
             ELSE [f EXCEPT !.score = @ + 20,
                            !.reasons = Append(@, "Good cloud conditions")]
    IN  IF sat.requires_daylight /\ ~w.is_daylight
        THEN [c EXCEPT !.weather_suitable = FALSE,
                       !.score = @ - 50,
                       !.reasons = Append(@, "Requires daylight")]
        ELSE c

WeatherCheckEitherPenalty(f, sat, w) ==
    IF ~sat.weather_independent
    THEN IF w.current_cloud_cover > sat.min_cloud_ok
         THEN [f EXCEPT !.weather_suitable = FALSE,
                        !.score = @ - (w.current_cloud_cover - sat.min_cloud_ok) * 2,
                        !.reasons = Append(@, "Too cloudy")]
         ELSE IF sat.requires_daylight /\ ~w.is_daylight
         THEN [f EXCEPT !.weather_suitable = FALSE,
                        !.score = @ - 50,
                        !.reasons = Append(@, "Requires daylight")]
         ELSE [f EXCEPT !.score = @ + 20,
                        !.reasons = Append(@, "Good cloud conditions")]
    ELSE [f EXCEPT !.score = @ + 30,
                   !.reasons = Append(@, "All-weather capability (SAR)"),
                   !.weather_suitable = TRUE]

WeatherCheck(f, sat, w) ==
    IF ~sat.weather_independent
    THEN LET c == IF w.current_cloud_cover > sat.min_cloud_ok
                  THEN [f EXCEPT !.weather_suitable = FALSE,
                                 !.score = @ - (w.current_cloud_cover - sat.min_cloud_ok) * 2,
                                 !.reasons = Append(@, "Too cloudy")]
                  ELSE [f EXCEPT !.score = @ + 20,
                                 !.reasons = Append(@, "Good cloud conditions")]
         IN  IF sat.requires_daylight /\ ~w.is_daylight
             THEN [c EXCEPT !.weather_suitable = FALSE,
                            !.score = @ - 50,
                            !.reasons = Append(@, "Requires daylight")]
             ELSE c
    ELSE [f EXCEPT !.score = @ + 30,
                   !.reasons = Append(@, "All-weather capability (SAR)"),
                   !.weather_suitable = TRUE]

BudgetCheckFreeOnly(f, cost, budget) ==
    IF cost = 0
    THEN [f EXCEPT !.score = @ + 15, !.reasons = Append(@, "Free data")]
    ELSE f

BudgetCheckBoth(f, cost, budget) ==
    LET g == IF budget # None /\ cost > Val(budget)
             THEN [f EXCEPT !.score = @ - 20,
                            !.reasons = Append(@, "Over budget")]
             ELSE f
    IN  IF cost = 0
        THEN [g EXCEPT !.score = @ + 15, !.reasons = Append(@, "Free data")]
        ELSE g

BudgetCheck(f, cost, budget) ==
    IF budget # None /\ cost > Val(budget)
    THEN [f EXCEPT !.score = @ - 20, !.reasons = Append(@, "Over budget")]
    ELSE IF cost = 0
    THEN [f EXCEPT !.score = @ + 15, !.reasons = Append(@, "Free data")]
    ELSE f

ResolutionCheckInclusive(f, sat, resolution) ==
    IF resolution # None /\ sat.resolution_m >= Val(resolution)
    THEN [f EXCEPT !.score = @ - 15,
                   !.reasons = Append(@, "Lower resolution than required")]
    ELSE f

ResolutionCheck(f, sat, resolution) ==
    IF resolution # None /\ sat.resolution_m > Val(resolution)
    THEN [f EXCEPT !.score = @ - 15,
                   !.reasons = Append(@, "Lower resolution than required")]
    ELSE f

UrgencyCheckWithinTheHour(f, eta, urgency) ==
    IF urgency # None /\ eta > Val(urgency)
    THEN [f EXCEPT !.score = @ - 25, !.reasons = Append(@, "Too slow")]
    ELSE IF eta < 24 + 2
    THEN [f EXCEPT !.score = @ + 10, !.reasons = Append(@, "Fast delivery")]
    ELSE f

UrgencyCheck(f, eta, urgency) ==
    IF urgency # None /\ eta > Val(urgency)
    THEN [f EXCEPT !.score = @ - 25, !.reasons = Append(@, "Too slow")]
    ELSE IF eta <= 24
    THEN [f EXCEPT !.score = @ + 10, !.reasons = Append(@, "Fast delivery")]
    ELSE f

QualityStrict(score) ==
    IF score > 80 THEN "Excellent"
    ELSE IF score > 60 THEN "Good"
    ELSE IF score > 40 THEN "Fair"
    ELSE "Poor"

Quality(score) ==
    IF score >= 80 THEN "Excellent"
    ELSE IF score >= 60 THEN "Good"
    ELSE IF score >= 40 THEN "Fair"
    ELSE "Poor"

ClampNoFloor(score) == Min(100, score)

Clamp(score) == Max(0, Min(100, score))

\* The locals at the end of one iteration of the loop of get_recommendations.
ScoreFrame(sat_name, w, sqkm, budget, resolution, urgency) ==
    LET sat  == ADVISOR_SATELLITES[sat_name]
        cost == sat.cost_per_sqkm * sqkm
        f0   == [score |-> 100, reasons |-> <<>>, weather_suitable |-> TRUE]
        f1   == WeatherCheck(f0, sat, w)
        f2   == BudgetCheck(f1, cost, budget)
        f3   == ResolutionCheck(f2, sat, resolution)
        eta  == sat.revisit_hours + sat.data_latency_hours
        f4   == UrgencyCheck(f3, eta, urgency)
    IN  [ sat_name |-> sat_name, cost |-> cost, cost_str |-> CostStr(cost),
          score_weather |-> f1.score, score_budget |-> f2.score,
          score_resolution |-> f3.score, score |-> f4.score,
          reasons |-> f4.reasons, weather_suitable |-> f4.weather_suitable,
          eta |-> eta, quality |-> Quality(f4.score) ]

\* The SatelliteRecommendation appended at the end of an iteration.
Recommendation(fr) ==
    [ satellite_name |-> fr.sat_name,
      provider |-> ADVISOR_SATELLITES[fr.sat_name].provider,
      score |-> Clamp(fr.score),
      reasons |-> fr.reasons,
      estimated_quality |-> fr.quality,
      cost |-> fr.cost_str,
      eta_hours |-> fr.eta,
      weather_suitable |-> fr.weather_suitable ]

(***************************************************************************)
(* recommendations.sort(key=lambda x: x.score, reverse=True).  list.sort   *)
(* is stable, and with reverse=True it keeps that stability by reversing   *)
(* the list, sorting it ascending and reversing the result.                *)
(***************************************************************************)
Reverse(s) == [i \in 1..Len(s) |-> s[Len(s) + 1 - i]]

\* r goes after every element whose score is <= its own.
RECURSIVE InsertAsc(_, _)
InsertAsc(s, r) ==
    IF s = <<>> THEN <<r>>
    ELSE IF s[Len(s)].score <= r.score THEN Append(s, r)
    ELSE Append(InsertAsc(SubSeq(s, 1, Len(s) - 1), r), s[Len(s)])

RECURSIVE StableSortAsc(_)
StableSortAsc(s) ==
    IF s = <<>> THEN <<>>
    ELSE InsertAsc(StableSortAsc(SubSeq(s, 1, Len(s) - 1)), s[Len(s)])

SortAscending(s) == StableSortAsc(s)

SortReversedTies(s) == Reverse(StableSortAsc(s))

SortByScoreDescending(s) == Reverse(StableSortAsc(Reverse(s)))

\* weather.current_cloud_cover on None raises AttributeError, in the first
\* iteration that reaches the weather check of a weather-dependent entry.
RaisesAttributeError(w) ==
    /\ w = None
    /\ \E i \in DOMAIN AdvisorNames :
          ~ADVISOR_SATELLITES[AdvisorNames[i]].weather_independent

Frames(w, sqkm, budget, resolution, urgency) ==
    [ i \in DOMAIN AdvisorNames |->
        ScoreFrame(AdvisorNames[i], Val(w), sqkm, budget, resolution, urgency) ]

GetRecommendations(frs) ==
    SortByScoreDescending([ i \in DOMAIN frs |-> Recommendation(frs[i]) ])


(***************************************************************************)
(* The inputs of the `recommend` command.  Each set holds the values on    *)
(* both sides of a comparison of the scoring loop.                         *)
(***************************************************************************)
MaxCloud == 100

\* Areas 0, 1 and 10^2 .. 10^MaxAreaExp square kilometres.
MaxAreaExp == 2

AreaValues == {0, 1} \cup { 10^k : k \in 2..MaxAreaExp }

\* Budgets in dollars: none, a negative one (a cost of 0 is over it), 0, the
\* cost of PlanetScope over 100 km2 (equal is not over budget), 1000 (the
\* WorldView-3 scenario) and a large one.
BudgetValues == {None} \cup { Some(10 * b) : b \in {-1, 0, 250, 1000, 100000} }

\* Resolutions in centimetres: none, 0, 30 (Pleiades-Neo is exactly 0.3 m,
\* WorldView-3 is 0.31 m) and 5 m.
ResolutionValues == {None} \cup { Some(r) : r \in {0, 30, 500} }

\* Urgencies in hours: none, 0, 24, 25 (the eta of Capella), 147 (the eta of
\* Sentinel-1).
UrgencyValues == {None} \cup { Some(u) : u \in {0, 24, 25, 147} }

WeatherData ==
    [ current_cloud_cover : 0..MaxCloud, is_daylight : BOOLEAN ]

\* What WeatherService.get_weather can return: a snapshot, or None.
WeatherResults == {None} \cup { Some(w) : w \in WeatherData }

AdvisorInit ==
    /\ pc = "start"
    /\ output_json \in BOOLEAN
    /\ area_sqkm \in AreaValues
    /\ max_budget \in BudgetValues
    /\ min_resolution \in ResolutionValues
    /\ urgency_hours \in UrgencyValues
    /\ weather = None
    /\ engine_calls = <<>>
    /\ frames = <<>>
    /\ recommendations = <<>>
    /\ output = ""
    /\ error = ""

\* recommend --json: weather = advisor.weather_service.get_weather()
CliGetWeather ==
    /\ pc = "start" /\ output_json
    /\ \E w \in WeatherResults : weather' = w
    /\ pc' = "json_fetched"
    /\ UNCHANGED <<output_json, area_sqkm, max_budget, min_resolution,
                   urgency_hours, engine_calls, frames, recommendations,
                   output, error>>
    /\ UNCHANGED <<clock, timeVars, passVars, locVars, extVars>>

\* recommend --json: get_recommendations(weather, ...) with no check of the
\* weather, then the JSON document printed.
CliRecommend ==
    /\ pc = "json_fetched"
    /\ engine_calls' = Append(engine_calls, weather)
    /\ IF RaisesAttributeError(weather)
       THEN /\ pc' = "failed"
            /\ error' = "AttributeError"
            /\ UNCHANGED <<frames, recommendations, output>>
       ELSE /\ frames' = Frames(weather, area_sqkm, max_budget,
                                min_resolution, urgency_hours)
            /\ recommendations' = GetRecommendations(frames')
            /\ output' = "json"
            /\ pc' = "done"
            /\ UNCHANGED error
    /\ UNCHANGED <<output_json, area_sqkm, max_budget, min_resolution,
                   urgency_hours, weather>>
    /\ UNCHANGED <<clock, timeVars, passVars, locVars, extVars>>

\* SmartSatelliteAdvisor.run: weather = self.weather_service.get_weather()
RunGetWeather ==
    /\ pc = "start" /\ ~output_json
    /\ \E w \in WeatherResults : weather' = w
    /\ pc' = "run_fetched"
    /\ UNCHANGED <<output_json, area_sqkm, max_budget, min_resolution,
                   urgency_hours, engine_calls, frames, recommendations,
                   output, error>>
    /\ UNCHANGED <<clock, timeVars, passVars, locVars, extVars>>

\* SmartSatelliteAdvisor.run: `if weather is None`, the no-weather panel.
RunNoWeather ==
    /\ pc = "run_fetched" /\ weather = None
    /\ output' = "no_weather_panel"
    /\ pc' = "done"
    /\ UNCHANGED <<output_json, area_sqkm, max_budget, min_resolution,
                   urgency_hours, weather, engine_calls, frames,
                   recommendations, error>>
    /\ UNCHANGED <<clock, timeVars, passVars, locVars, extVars>>

\* SmartSatelliteAdvisor.run: the recommendations and the three panels.
RunRecommend ==
    /\ pc = "run_fetched" /\ weather # None
    /\ engine_calls' = Append(engine_calls, weather)
    /\ frames' = Frames(weather, area_sqkm, max_budget, min_resolution,
                        urgency_hours)
    /\ recommendations' = GetRecommendations(frames')
    /\ output' = "panels"
    /\ pc' = "done"
    /\ UNCHANGED <<output_json, area_sqkm, max_budget, min_resolution,
                   urgency_hours, weather, error>>
    /\ UNCHANGED <<clock, timeVars, passVars, locVars, extVars>>

\* The advisor components at rest, for the specifications of the others.
AdvisorIdle ==
    /\ pc = "idle"
    /\ output_json = FALSE
    /\ area_sqkm = 0
    /\ max_budget = None
    /\ min_resolution = None
    /\ urgency_hours = None
    /\ weather = None
    /\ engine_calls = <<>>
    /\ frames = <<>>
    /\ recommendations = <<>>
    /\ output = ""
    /\ error = ""

(***************************************************************************)
(* The system clock.  datetime.now(timezone.utc) reads `clock`; time       *)
(* passes in ticks of TickMinutes, MaxTicks of them at most.               *)
(***************************************************************************)
TickMinutes == 45

MaxTicks == 3

Tick ==
    /\ clock < MaxTicks * TickMinutes
    /\ clock' = clock + TickMinutes
    /\ UNCHANGED <<advVars, timeVars, passVars, locVars, extVars>>

\* timedelta(hours=h), in minutes
Hours(h) == h * 60

(***************************************************************************)
(* SatelliteChecker.calculate_times.  DEFAULT_SATELLITES in the insertion  *)
(* order of the dict.                                                      *)
(***************************************************************************)
DefaultNames ==
    << "Sentinel-1A", "Sentinel-2A", "Landsat-9", "WorldView-3",
       "Pleiades-Neo", "PlanetScope", "SkySat", "BlackSky", "ICEYE-X",
       "Capella" >>

DefaultEntry(res, revisit, ago, latency, cost, indep) ==
    [ resolution_m |-> res, revisit_days |-> revisit,
      last_pass_hours_ago |-> ago, data_latency_hours |-> latency,
      cost_per_sqkm |-> cost, weather_independent |-> indep ]

DEFAULT_SATELLITES ==
    [ n \in { DefaultNames[i] : i \in DOMAIN DefaultNames } |->
        CASE n = "Sentinel-1A"  -> DefaultEntry(500, 6, 36, 3, 0, TRUE)
          [] n = "Sentinel-2A"  -> DefaultEntry(1000, 5, 24, 3, 0, FALSE)
          [] n = "Landsat-9"    -> DefaultEntry(3000, 16, 120, 24, 0, FALSE)
          [] n = "WorldView-3"  -> DefaultEntry(31, 1, 8, 12, 250, FALSE)
          [] n = "Pleiades-Neo" -> DefaultEntry(30, 1, 14, 6, 300, FALSE)
          [] n = "PlanetScope"  -> DefaultEntry(300, 1, 4, 2, 25, FALSE)
          [] n = "SkySat"       -> DefaultEntry(50, 1, 6, 3, 100, FALSE)
          [] n = "BlackSky"     -> DefaultEntry(100, 1, 2, 1, 45, FALSE)
          [] n = "ICEYE-X"      -> DefaultEntry(25, 1, 10, 2, 1000, TRUE)
          [] n = "Capella"      -> DefaultEntry(50, 1, 18, 1, 800, TRUE) ]

\* The body of calculate_times without the floor at 0.
CalculateTimesNoFloor(data, t) ==
    LET last_pass == t - Hours(data.last_pass_hours_ago)
        hours_until_next == (data.revisit_days * 24) - data.last_pass_hours_ago
        next_pass == t + Hours(hours_until_next)
    IN  [ now |-> t,
          last_image_available |-> last_pass + Hours(data.data_latency_hours),
          next_pass |-> next_pass,
          next_image_available |-> next_pass + Hours(data.data_latency_hours) ]

CalculateTimesNoLatency(data, t) ==
    LET last_pass == t - Hours(data.last_pass_hours_ago)
        hours_until_next == (data.revisit_days * 24) - data.last_pass_hours_ago
        next_pass == t + Hours(Max(0, hours_until_next))
    IN  [ now |-> t,
          last_image_available |-> last_pass + Hours(data.data_latency_hours),
          next_pass |-> next_pass,
          next_image_available |-> next_pass ]

\* The body of calculate_times, `t` being the clock it samples: its local
\* `now` and the three datetimes it returns.
CalculateTimes(data, t) ==
    LET last_pass == t - Hours(data.last_pass_hours_ago)
        hours_until_next == (data.revisit_days * 24) - data.last_pass_hours_ago
        next_pass == t + Hours(Max(0, hours_until_next))
    IN  [ now |-> t,
          last_image_available |-> last_pass + Hours(data.data_latency_hours),
          next_pass |-> next_pass,
          next_image_available |-> next_pass + Hours(data.data_latency_hours) ]

\* The satellite_data records calculate_times is given: the timing fields of
\* the entries of DEFAULT_SATELLITES, and records of a caller's own with a
\* revisit of 0..MaxRevisitDays days, a last pass -12 h .. 12*MaxLastPassSteps h
\* ago and a latency of 0, 3 or 24 h.
MaxRevisitDays == 2

MaxLastPassSteps == 5

TimingFields(e) ==
    [ revisit_days |-> e.revisit_days,
      last_pass_hours_ago |-> e.last_pass_hours_ago,
      data_latency_hours |-> e.data_latency_hours ]

SatelliteDataValues ==
    { TimingFields(DEFAULT_SATELLITES[DefaultNames[i]]) : i \in DOMAIN DefaultNames }
    \cup [ revisit_days : 0..MaxRevisitDays,
           last_pass_hours_ago : { 12 * k : k \in -1..MaxLastPassSteps },
           data_latency_hours : {0, 3, 24} ]

TimesIdle ==
    /\ satellite_data = None
    /\ times = None

CallCalculateTimes ==
    /\ \E data \in SatelliteDataValues :
          /\ satellite_data' = Some(data)
          /\ times' = Some(CalculateTimes(data, clock))
    /\ UNCHANGED <<advVars, clock, passVars, locVars, extVars>>

(***************************************************************************)
(* SatelliteMonitor.calculate_next_passes over SATELLITE_CATALOG.          *)
(* revisit_time_days is in tenths of a day, so `revisit_hours` is in       *)
(* tenths of an hour; data_latency_hours is in minutes.                    *)
(***************************************************************************)
CatalogEntry(n, res, revisit, sar, latency, cost, free) ==
    [ name |-> n, resolution_m |-> res, revisit_time_days |-> revisit,
      has_sar |-> sar, data_latency_hours |-> latency,
      cost_per_sqkm |-> cost, free_tier |-> free ]

SATELLITE_CATALOG ==
    << CatalogEntry("Sentinel-1", 500, 60, TRUE, <<60, 180>>, <<0, 0>>, TRUE),
       CatalogEntry("Sentinel-2", 1000, 50, FALSE, <<60, 180>>, <<0, 0>>, TRUE),
       CatalogEntry("WorldView-3", 31, 10, FALSE, <<60, 1440>>, <<175, 350>>, FALSE),
       CatalogEntry("WorldView-2", 46, 11, FALSE, <<60, 1440>>, <<150, 300>>, FALSE),
       CatalogEntry("PlanetScope", 300, 10, FALSE, <<60, 720>>, <<18, 35>>, FALSE),
       CatalogEntry("SkySat", 50, 10, FALSE, <<60, 360>>, <<80, 150>>, FALSE),
       CatalogEntry("Pleiades", 30, 10, FALSE, <<60, 1440>>, <<200, 400>>, FALSE),
       CatalogEntry("SPOT", 150, 10, FALSE, <<120, 1440>>, <<50, 100>>, FALSE),
       CatalogEntry("BlackSky", 100, 10, FALSE, <<30, 120>>, <<30, 60>>, FALSE),
       CatalogEntry("ICEYE", 25, 10, TRUE, <<30, 180>>, <<500, 1500>>, FALSE),
       CatalogEntry("Capella", 50, 10, TRUE, <<30, 120>>, <<400, 1200>>, FALSE),
       CatalogEntry("Landsat-9", 1500, 160, FALSE, <<720, 2880>>, <<0, 0>>, TRUE) >>

\* SatelliteSpecs validates nothing and SATELLITE_CATALOG is a plain dict: the
\* catalog as shipped, or with one more constellation registered whose
\* revisit time is -1, 0, 0.5 or 3 days.
CustomRevisits == {-10, 0, 5, 30}

CatalogValues ==
    {SATELLITE_CATALOG} \cup
    { Append(SATELLITE_CATALOG,
             CatalogEntry("Custom", 100, r, FALSE, <<60, 60>>, <<10, 20>>, FALSE))
        : r \in CustomRevisits }

\* hours_ahead: -12 h .. 12*MaxHorizonSteps h
MaxHorizonSteps == 5

HoursAheadValues == { 12 * k : k \in -1..MaxHorizonSteps }

\* The while loop of a constellation is followed for this many passes.
MaxPassesPerConstellation == 8

\* revisit_hours = specs.revisit_time_days * 24
RevisitHours(specs) == specs.revisit_time_days * 24

\* timedelta(hours=revisit_hours), in minutes
RevisitDelta(specs) == RevisitHours(specs) * 6

WhileConditionInclusive(t, e) == t <= e

\* while next_pass_time < end_time
WhileCondition(t, e) == t < e

PassesOf(ps, n) == SelectSeq(ps, LAMBDA p : p.constellation = n)

\* passes.sort(key=lambda x: x.pass_time): a stable ascending sort
RECURSIVE InsertByPassTime(_, _)
InsertByPassTime(s, p) ==
    IF s = <<>> THEN <<p>>
    ELSE IF s[Len(s)].pass_time <= p.pass_time THEN Append(s, p)
    ELSE Append(InsertByPassTime(SubSeq(s, 1, Len(s) - 1), p), s[Len(s)])

RECURSIVE SortByPassTime(_)
SortByPassTime(s) ==
    IF s = <<>> THEN <<>>
    ELSE InsertByPassTime(SortByPassTime(SubSeq(s, 1, Len(s) - 1)), s[Len(s)])

PassesIdle ==
    /\ catalog = SATELLITE_CATALOG
    /\ hours_ahead = 0
    /\ mon_pc = "idle"
    /\ now = 0
    /\ end_time = 0
    /\ idx = 0
    /\ next_pass_time = 0
    /\ passes = <<>>
    /\ passes_cache = <<>>

\* No projection under way, over one of the catalogs `cats`.
PassesIdleOver(cats) ==
    /\ catalog \in cats
    /\ hours_ahead = 0
    /\ mon_pc = "idle"
    /\ now = 0
    /\ end_time = 0
    /\ idx = 0
    /\ next_pass_time = 0
    /\ passes = <<>>
    /\ passes_cache = <<>>

PassesInit ==
    /\ catalog \in CatalogValues
    /\ hours_ahead \in HoursAheadValues
    /\ mon_pc = "idle"
    /\ now = 0
    /\ end_time = 0
    /\ idx = 0
    /\ next_pass_time = 0
    /\ passes = <<>>
    /\ passes_cache = <<>>

\* passes = [], now and end_time, and the for loop at the first constellation
StartProjection ==
    /\ mon_pc = "idle"
    /\ passes' = <<>>
    /\ now' = clock
    /\ end_time' = clock + Hours(hours_ahead)
    /\ idx' = 1
    /\ next_pass_time' = clock
    /\ mon_pc' = "loop"
    /\ UNCHANGED <<catalog, hours_ahead, passes_cache>>
    /\ UNCHANGED <<advVars, clock, timeVars, locVars, extVars>>

\* One iteration of the while loop: a pass at next_pass_time, then
\* next_pass_time += timedelta(hours=revisit_hours).
EmitPass ==
    /\ mon_pc = "loop"
    /\ WhileCondition(next_pass_time, end_time)
    /\ Len(PassesOf(passes, catalog[idx].name)) < MaxPassesPerConstellation
    /\ passes' = Append(passes, [ constellation |-> catalog[idx].name,
                                  pass_time |-> next_pass_time ])
    /\ next_pass_time' = next_pass_time + RevisitDelta(catalog[idx])
    /\ UNCHANGED <<catalog, hours_ahead, mon_pc, now, end_time, idx,
                   passes_cache>>
    /\ UNCHANGED <<advVars, clock, timeVars, locVars, extVars>>

\* The while loop ends; the for loop moves to the next constellation.
NextConstellation ==
    /\ mon_pc = "loop"
    /\ ~WhileCondition(next_pass_time, end_time)
    /\ idx < Len(catalog)
    /\ idx' = idx + 1
    /\ next_pass_time' = now
    /\ UNCHANGED <<catalog, hours_ahead, mon_pc, now, end_time, passes,
                   passes_cache>>
    /\ UNCHANGED <<advVars, clock, timeVars, locVars, extVars>>

\* The for loop ends: the passes are sorted, cached and returned.
FinishProjection ==
    /\ mon_pc = "loop"
    /\ ~WhileCondition(next_pass_time, end_time)
    /\ idx = Len(catalog)
    /\ passes' = SortByPassTime(passes)
    /\ passes_cache' = passes'
    /\ mon_pc' = "done"
    /\ UNCHANGED <<catalog, hours_ahead, now, end_time, idx, next_pass_time>>
    /\ UNCHANGED <<advVars, clock, timeVars, locVars, extVars>>

(***************************************************************************)
(* Location and Area: plain (not frozen) dataclasses whose __post_init__   *)
(* checks the ranges.                                                      *)
(***************************************************************************)
MaxLatitude == 90

MaxLongitude == 180

LatitudeValues == {-MaxLatitude - 1, -MaxLatitude, 0, MaxLatitude, MaxLatitude + 1}

LongitudeValues ==
    {-MaxLongitude - 1, -MaxLongitude, 0, MaxLongitude, MaxLongitude + 1}

\* Area bounds 0..MaxBound degrees on both axes.
MaxBound == 1

BoundValues == 0..MaxBound

LocationRaisesAtBoundary(lat, lon) ==
    \/ ~(-MaxLatitude < lat /\ lat < MaxLatitude)
    \/ ~(-MaxLongitude < lon /\ lon < MaxLongitude)

\* Location.__post_init__ raises ValueError
LocationRaises(lat, lon) ==
    \/ ~(-MaxLatitude <= lat /\ lat <= MaxLatitude)
    \/ ~(-MaxLongitude <= lon /\ lon <= MaxLongitude)

\* Area.__post_init__ raises ValueError
AreaRaises(a) ==
    \/ a.min_lon >= a.max_lon
    \/ a.min_lat >= a.max_lat

LocationIdle ==
    /\ location = None
    /\ loc_args = None
    /\ loc_fresh = TRUE
    /\ loc_error = ""
    /\ area = None
    /\ area_args = None
    /\ area_error = ""

\* Location(name, latitude, longitude)
NewLocation ==
    /\ \E lat \in LatitudeValues, lon \in LongitudeValues :
          /\ loc_args' = Some([latitude |-> lat, longitude |-> lon])
          /\ IF LocationRaises(lat, lon)
             THEN location' = None /\ loc_error' = "ValueError"
             ELSE /\ location' = Some([latitude |-> lat, longitude |-> lon])
                  /\ loc_error' = ""
    /\ loc_fresh' = TRUE
    /\ UNCHANGED <<area, area_args, area_error>>
    /\ UNCHANGED <<advVars, clock, timeVars, passVars, extVars>>

\* location.latitude = v: the dataclass is not frozen, the attribute is set
\* and __post_init__ does not run again.
SetLatitude ==
    /\ location # None
    /\ \E v \in LatitudeValues :
          location' = Some([Val(location) EXCEPT !.latitude = v])
    /\ loc_fresh' = FALSE
    /\ UNCHANGED <<loc_args, loc_error, area, area_args, area_error>>
    /\ UNCHANGED <<advVars, clock, timeVars, passVars, extVars>>

\* location.longitude = v
SetLongitude ==
    /\ location # None
    /\ \E v \in LongitudeValues :
          location' = Some([Val(location) EXCEPT !.longitude = v])
    /\ loc_fresh' = FALSE
    /\ UNCHANGED <<loc_args, loc_error, area, area_args, area_error>>
    /\ UNCHANGED <<advVars, clock, timeVars, passVars, extVars>>

\* Area(name, min_lon, max_lon, min_lat, max_lat)
NewArea ==
    /\ \E a \in [ min_lon : BoundValues, max_lon : BoundValues,
                  min_lat : BoundValues, max_lat : BoundValues ] :
          /\ area_args' = Some(a)
          /\ IF AreaRaises(a)
             THEN area' = None /\ area_error' = "ValueError"
             ELSE area' = Some(a) /\ area_error' = ""
    /\ UNCHANGED <<location, loc_args, loc_fresh, loc_error>>
    /\ UNCHANGED <<advVars, clock, timeVars, passVars, extVars>>

(***************************************************************************)
(* The process-wide tables and the per-instance copies.  A table is a dict *)
(* of dicts: the outer dict maps a name to the address of an inner dict on *)
(* the heap `objects`.  SatelliteChecker.__init__ and                      *)
(* SmartSatelliteAdvisor.__init__ take `TABLE.copy()`, a new outer dict    *)
(* holding the same addresses.                                             *)
(***************************************************************************)
MaxInstances == 2

MaxWrites == 1

\* cost_per_sqkm values a caller overrides an entry with
OverrideCosts == {0, 5}

\* The heap once the modules are imported: the inner dicts of
\* DEFAULT_SATELLITES, then those of ADVISOR_SATELLITES.
ImportedObjects ==
    [ i \in DOMAIN DefaultNames |-> DEFAULT_SATELLITES[DefaultNames[i]] ]
    \o [ i \in DOMAIN AdvisorNames |-> ADVISOR_SATELLITES[AdvisorNames[i]] ]

TablesIdle ==
    /\ objects = ImportedObjects
    /\ default_refs =
          [ n \in DOMAIN DEFAULT_SATELLITES |->
              CHOOSE i \in DOMAIN DefaultNames : DefaultNames[i] = n ]
    /\ advisor_refs =
          [ n \in DOMAIN ADVISOR_SATELLITES |->
              Len(DefaultNames)
                + (CHOOSE i \in DOMAIN AdvisorNames : AdvisorNames[i] = n) ]
    /\ instances = <<>>
    /\ overriding = {}
    /\ writes = 0

\* dict.copy(): a new outer dict with the same values, which are addresses
ShallowCopy(refs) == [ n \in DOMAIN refs |-> refs[n] ]

\* What a reader of the mapping `refs` sees
View(refs) == [ n \in DOMAIN refs |-> objects[refs[n]] ]

\* SatelliteChecker(): self.satellites = DEFAULT_SATELLITES.copy()
NewChecker ==
    /\ Len(instances) < MaxInstances
    /\ instances' = Append(instances, [ kind |-> "checker",
                                        satellites |-> ShallowCopy(default_refs) ])
    /\ UNCHANGED <<objects, default_refs, advisor_refs, overriding, writes>>
    /\ UNCHANGED <<advVars, clock, timeVars, passVars, locVars, chkVars,
                   costVars, ctrVars,
                   restVars>>

\* SmartSatelliteAdvisor(): self.satellites = ADVISOR_SATELLITES.copy()
NewAdvisor ==
    /\ Len(instances) < MaxInstances
    /\ instances' = Append(instances, [ kind |-> "advisor",
                                        satellites |-> ShallowCopy(advisor_refs) ])
    /\ UNCHANGED <<objects, default_refs, advisor_refs, overriding, writes>>
    /\ UNCHANGED <<advVars, clock, timeVars, passVars, locVars, chkVars,
                   costVars, ctrVars,
                   restVars>>

\* instance.satellites[name]["cost_per_sqkm"] = v: the item assignment goes
\* to the inner dict the instance's mapping refers to.
SetEntryField ==
    /\ writes < MaxWrites
    /\ \E i \in DOMAIN instances :
       \E n \in DOMAIN instances[i].satellites :
       \E v \in OverrideCosts :
          /\ objects' = [objects EXCEPT
                           ![instances[i].satellites[n]].cost_per_sqkm = v]
          /\ overriding' = overriding \cup {i}
    /\ writes' = writes + 1
    /\ UNCHANGED <<default_refs, advisor_refs, instances>>
    /\ UNCHANGED <<advVars, clock, timeVars, passVars, locVars, chkVars,
                   costVars, ctrVars,
                   restVars>>

\* instance.satellites[name] = {**instance.satellites[name],
\* "cost_per_sqkm": v}: a new inner dict, bound in the instance's own mapping.
ReplaceEntry ==
    /\ writes < MaxWrites
    /\ \E i \in DOMAIN instances :
       \E n \in DOMAIN instances[i].satellites :
       \E v \in OverrideCosts :
          /\ objects' = Append(objects,
                               [objects[instances[i].satellites[n]]
                                   EXCEPT !.cost_per_sqkm = v])
          /\ instances' = [instances EXCEPT
                             ![i].satellites[n] = Len(objects) + 1]
          /\ overriding' = overriding \cup {i}
    /\ writes' = writes + 1
    /\ UNCHANGED <<default_refs, advisor_refs>>
    /\ UNCHANGED <<advVars, clock, timeVars, passVars, locVars, chkVars,
                   costVars, ctrVars,
                   restVars>>

(***************************************************************************)
(* SatelliteChecker.run and _display_all: the summary table, the upcoming  *)
(* panel and the recommendations panel, and in watch mode a sleep and a    *)
(* refresh_weather between two displays.                                   *)
(***************************************************************************)
\* Display cycles of watch mode that are followed.
MaxCycles == 2

\* area_sqkm: float = 100, the default of SatelliteChecker.__init__
DefaultAreaSqkm == 100

\* WeatherData.is_good_for_optical, is_marginal_for_optical and
\* is_poor_for_optical (weather/models.py)
IsGoodForOptical(w) == w.current_cloud_cover < 30 /\ w.is_daylight

IsMarginalForOptical(w) ==
    30 <= w.current_cloud_cover /\ w.current_cloud_cover < 70 /\ w.is_daylight

IsPoorForOptical(w) == w.current_cloud_cover >= 70 \/ ~w.is_daylight

WeatherOkDefaultClear(data, w) ==
    LET cloud_cover == IF w = None THEN 0 ELSE Val(w).current_cloud_cover
        is_day == IF w = None THEN TRUE ELSE Val(w).is_daylight
    IN  IF data.weather_independent THEN "yes"
        ELSE IF cloud_cover < 30 /\ is_day THEN "yes"
        ELSE IF cloud_cover < 60 /\ is_day THEN "marginal"
        ELSE "no"

\* create_summary_table: "Assess weather suitability"
WeatherOk(data, w) ==
    IF w = None
    THEN IF data.weather_independent THEN "yes" ELSE "unknown"
    ELSE IF data.weather_independent THEN "yes"
    ELSE IF Val(w).current_cloud_cover < 30 /\ Val(w).is_daylight THEN "yes"
    ELSE IF Val(w).current_cloud_cover < 60 /\ Val(w).is_daylight THEN "marginal"
    ELSE "no"

\* calculate_cost, and the colour create_summary_table gives the cell
CalculateCost(data, sqkm) == CostStr(data.cost_per_sqkm * sqkm)

CostColour(cost) ==
    IF cost.free THEN "green"
    ELSE IF cost.dollars > 1000 THEN "red"
    ELSE "yellow"

\* row_data of one satellite
RowData(name, w) ==
    LET data == DEFAULT_SATELLITES[name]
        cost == CalculateCost(data, DefaultAreaSqkm)
    IN  [ name |-> name, weather_ok |-> WeatherOk(data, w), cost |-> cost,
          colour |-> CostColour(cost), cost_per_sqkm |-> data.cost_per_sqkm ]

\* commercial_satellites.sort(key=lambda x: x[0]): a stable ascending sort
RECURSIVE InsertByCost(_, _)
InsertByCost(s, r) ==
    IF s = <<>> THEN <<r>>
    ELSE IF s[Len(s)].cost_per_sqkm <= r.cost_per_sqkm THEN Append(s, r)
    ELSE Append(InsertByCost(SubSeq(s, 1, Len(s) - 1), r), s[Len(s)])

RECURSIVE SortByCost(_)
SortByCost(s) ==
    IF s = <<>> THEN <<>>
    ELSE InsertByCost(SortByCost(SubSeq(s, 1, Len(s) - 1)), s[Len(s)])

\* The rows create_summary_table adds: the free satellites in table order,
\* then the commercial ones by cost_per_sqkm.
SummaryRows(w) ==
    LET rows == [ i \in DOMAIN DefaultNames |-> RowData(DefaultNames[i], w) ]
    IN  SelectSeq(rows, LAMBDA r : r.cost.free)
        \o SortByCost(SelectSeq(rows, LAMBDA r : ~r.cost.free))

\* create_recommendations_panel
RecommendationsPanel(w) ==
    IF w = None
    THEN [ title |-> "Recommendations", conditions |-> "no_weather",
           best_free |-> "Sentinel-1 (SAR) or Sentinel-2 (optical if clear)",
           best_quality |-> "ICEYE (0.25m SAR) or WorldView-3 (0.31m optical if clear)" ]
    ELSE LET cloud_cover == Val(w).current_cloud_cover
             is_day == Val(w).is_daylight
         IN  [ title |-> "Smart Recommendations",
               conditions |->
                   IF cloud_cover < 30 /\ is_day THEN "excellent"
                   ELSE IF cloud_cover < 60 /\ is_day THEN "moderate"
                   ELSE IF cloud_cover >= 60 THEN "poor (cloudy)"
                   ELSE "poor (night)",
               best_free |->
                   IF cloud_cover < 30 /\ is_day THEN "Sentinel-2 (optical)"
                   ELSE "Sentinel-1 (SAR)",
               best_quality |->
                   IF cloud_cover < 20 /\ is_day THEN "WorldView-3 (0.31m optical)"
                   ELSE "ICEYE (0.25m SAR)" ]

CheckerIdle ==
    /\ watch = FALSE
    /\ chk_pc = "idle"
    /\ current_weather = None
    /\ fetches = 0
    /\ cycle = 0
    /\ table_weather = None
    /\ table = <<>>
    /\ panel_weather = None
    /\ panel = None

CheckerInit ==
    /\ watch \in BOOLEAN
    /\ chk_pc = "start"
    /\ current_weather = None
    /\ fetches = 0
    /\ cycle = 1
    /\ table_weather = None
    /\ table = <<>>
    /\ panel_weather = None
    /\ panel = None

\* get_current_weather: the provider is asked when current_weather is None,
\* and what it returns is stored, None included.
GetCurrentWeather ==
    IF current_weather = None
    THEN /\ \E w \in WeatherResults : current_weather' = w
         /\ fetches' = fetches + 1
    ELSE UNCHANGED <<current_weather, fetches>>

\* _display_all: self.console.print(self.create_summary_table())
CreateSummaryTable ==
    /\ chk_pc \in {"start", "refreshed"}
    /\ GetCurrentWeather
    /\ table_weather' = current_weather'
    /\ table' = SummaryRows(current_weather')
    /\ chk_pc' = "table"
    /\ UNCHANGED <<watch, cycle, panel_weather, panel>>
    /\ UNCHANGED <<advVars, clock, timeVars, passVars, locVars, tblVars,
                   costVars, ctrVars,
                   restVars>>

\* _display_all: self.console.print(self.create_next_available_panel()),
\* which reads the table and the clock and no weather.
CreateNextAvailablePanel ==
    /\ chk_pc = "table"
    /\ chk_pc' = "upcoming"
    /\ UNCHANGED <<watch, current_weather, fetches, cycle, table_weather,
                   table, panel_weather, panel>>
    /\ UNCHANGED <<advVars, clock, timeVars, passVars, locVars, tblVars,
                   costVars, ctrVars,
                   restVars>>

\* _display_all: self.console.print(self.create_recommendations_panel())
CreateRecommendationsPanel ==
    /\ chk_pc = "upcoming"
    /\ GetCurrentWeather
    /\ panel_weather' = current_weather'
    /\ panel' = Some(RecommendationsPanel(current_weather'))
    /\ chk_pc' = "displayed"
    /\ UNCHANGED <<watch, cycle, table_weather, table>>
    /\ UNCHANGED <<advVars, clock, timeVars, passVars, locVars, tblVars,
                   costVars, ctrVars,
                   restVars>>

\* run(watch=True): time.sleep(60), then refresh_weather, which asks the
\* provider whatever current_weather holds; the next cycle begins.
RefreshWeather ==
    /\ chk_pc = "displayed"
    /\ watch
    /\ cycle < MaxCycles
    /\ clock' = clock + 1
    /\ \E w \in WeatherResults : current_weather' = w
    /\ fetches' = 1
    /\ cycle' = cycle + 1
    /\ table_weather' = None
    /\ table' = <<>>
    /\ panel_weather' = None
    /\ panel' = None
    /\ chk_pc' = "refreshed"
    /\ UNCHANGED watch
    /\ UNCHANGED <<advVars, timeVars, passVars, locVars, tblVars, costVars,
                   ctrVars,
                   restVars>>

(***************************************************************************)
(* SatelliteSpecs.estimate_cost and                                        *)
(* SatelliteMonitor.estimate_total_coverage_cost.  Costs are in tenths of  *)
(* a dollar, the requested resolution in centimetres; frequency_days and   *)
(* duration_months are the integers of the signature.                      *)
(***************************************************************************)
\* duration_months 1..MaxDurationMonths
MaxDurationMonths == 2

\* Requested resolutions: 0.3 m (Pleiades), 1 m (the default), 5 m
\* (Sentinel-1) and 15 m (Landsat-9).
CoverageResolutions == {30, 100, 500, 1500}

\* Requested frequencies in days, each a divisor of 30 or 0.
CoverageFrequencies == {-1, 0, 1, 6, 30}

EstimateCostAdditive(specs, sqkm) ==
    << specs.cost_per_sqkm[1] + sqkm, specs.cost_per_sqkm[2] + sqkm >>

\* SatelliteSpecs.estimate_cost
EstimateCost(specs, sqkm) ==
    << specs.cost_per_sqkm[1] * sqkm, specs.cost_per_sqkm[2] * sqkm >>

CoverageFilterResolutionOnly(specs, resolution, frequency_days) ==
    specs.resolution_m <= resolution

\* specs.resolution_m <= resolution_m and
\* specs.revisit_time_days <= frequency_days  (revisit in tenths of a day)
CoverageFilter(specs, resolution, frequency_days) ==
    /\ specs.resolution_m <= resolution
    /\ specs.revisit_time_days <= frequency_days * 10

\* images_needed = (30 * duration_months) / frequency_days, exact for the
\* frequencies above
ImagesNeeded(duration_months, frequency_days) ==
    (30 * duration_months) \div frequency_days

\* The dict estimate_total_coverage_cost builds
CoverageCosts(cat, a) ==
    LET kept == { k \in DOMAIN cat :
                    CoverageFilter(cat[k], a.resolution_m, a.frequency_days) }
        images_needed == ImagesNeeded(a.duration_months, a.frequency_days)
        SpecsNamed(n) == cat[CHOOSE k \in kept : cat[k].name = n]
    IN  [ n \in { cat[k].name : k \in kept } |->
            LET c == EstimateCost(SpecsNamed(n), a.area_sqkm)
            IN  [ min_monthly_usd |-> c[1] * images_needed,
                  max_monthly_usd |-> c[2] * images_needed,
                  resolution_m |-> SpecsNamed(n).resolution_m,
                  actual_frequency_days |-> SpecsNamed(n).revisit_time_days ] ]

CostIdle ==
    /\ mon_area_sqkm = 0
    /\ est_args = None
    /\ est_cost = None
    /\ cov_args = None
    /\ costs = None
    /\ cov_error = ""

\* specs.estimate_cost(area_sqkm) on an entry of the catalog
CallEstimateCost ==
    /\ \E k \in DOMAIN catalog :
          /\ est_args' = Some([name |-> catalog[k].name,
                               area_sqkm |-> mon_area_sqkm])
          /\ est_cost' = Some(EstimateCost(catalog[k], mon_area_sqkm))
    /\ UNCHANGED <<mon_area_sqkm, cov_args, costs, cov_error>>
    /\ UNCHANGED <<advVars, clock, timeVars, passVars, locVars, tblVars,
                   chkVars, ctrVars,
                   restVars>>

\* monitor.estimate_total_coverage_cost(resolution_m, frequency_days,
\* duration_months); frequency_days = 0 raises at images_needed.
EstimateTotalCoverageCost ==
    /\ \E a \in [ resolution_m : CoverageResolutions,
                  frequency_days : CoverageFrequencies,
                  duration_months : 1..MaxDurationMonths,
                  area_sqkm : {mon_area_sqkm} ] :
          /\ cov_args' = Some(a)
          /\ IF a.frequency_days = 0
             THEN costs' = None /\ cov_error' = "ZeroDivisionError"
             ELSE costs' = Some(CoverageCosts(catalog, a)) /\ cov_error' = ""
    /\ UNCHANGED <<mon_area_sqkm, est_args, est_cost>>
    /\ UNCHANGED <<advVars, clock, timeVars, passVars, locVars, tblVars,
                   chkVars, ctrVars,
                   restVars>>

(***************************************************************************)
(* Python floats.  A float is a number m * 2^e whose significand m has     *)
(* MantissaBits bits (53 in CPython): the record [m, e] with               *)
(* 2^(MantissaBits-1) <= |m| < 2^MantissaBits, or m = 0 and e = 0.  Every  *)
(* arithmetic operation returns the float nearest to the exact result,     *)
(* ties to the even significand.  Exponents are unbounded here: no         *)
(* overflow, no subnormals.                                                *)
(***************************************************************************)
MantissaBits == 8

Abs(n) == IF n < 0 THEN -n ELSE n

Sign(n) == IF n < 0 THEN -1 ELSE 1

\* The number of bits of n > 0
BitLen(n) == CHOOSE b \in 1..30 : 2^(b - 1) <= n /\ n < 2^b

FloatZero == [m |-> 0, e |-> 0]

\* The float nearest to the integer n times 2^e (round half to even)
RoundToFloat(n, e) ==
    IF n = 0 THEN FloatZero
    ELSE LET a == Abs(n)
             b == BitLen(a)
         IN  IF b <= MantissaBits
             THEN [m |-> n * 2^(MantissaBits - b), e |-> e - (MantissaBits - b)]
             ELSE LET s    == b - MantissaBits
                      q    == a \div 2^s
                      r    == a % 2^s
                      half == 2^(s - 1)
                      up   == r > half \/ (r = half /\ q % 2 = 1)
                      q1   == IF up THEN q + 1 ELSE q
                  IN  IF q1 = 2^MantissaBits
                      THEN [m |-> Sign(n) * 2^(MantissaBits - 1), e |-> e + s + 1]
                      ELSE [m |-> Sign(n) * q1, e |-> e + s]

FloatNeg(x) == [m |-> -x.m, e |-> x.e]

\* x + y
FloatAdd(x, y) ==
    IF x.m = 0 THEN y
    ELSE IF y.m = 0 THEN x
    ELSE LET lo == Min(x.e, y.e)
         IN  IF x.e - y.e > MantissaBits + 2 THEN x
             ELSE IF y.e - x.e > MantissaBits + 2 THEN y
             ELSE RoundToFloat(x.m * 2^(x.e - lo) + y.m * 2^(y.e - lo), lo)

\* x - y
FloatSub(x, y) == FloatAdd(x, FloatNeg(y))

\* x * y
FloatMul(x, y) == RoundToFloat(x.m * y.m, x.e + y.e)

\* x / y, y # 0: the quotient to MantissaBits + 2 bits and a sticky bit
FloatDiv(x, y) ==
    IF x.m = 0 THEN FloatZero
    ELSE LET num == Abs(x.m) * 2^(MantissaBits + 2)
             q   == num \div Abs(y.m)
             st  == IF num % Abs(y.m) = 0 THEN 0 ELSE 1
         IN  RoundToFloat(Sign(x.m) * Sign(y.m) * (2 * q + st),
                          x.e - y.e - (MantissaBits + 2) - 1)

\* x / 2
FloatHalf(x) == IF x.m = 0 THEN x ELSE [m |-> x.m, e |-> x.e - 1]

\* x < y: the sign of the rounded difference is the sign of the difference
FloatLt(x, y) == FloatSub(x, y).m < 0

FloatAbs(x) == [m |-> Abs(x.m), e |-> x.e]

\* A literal: the float nearest to n * 2^e
FloatLiteral(n, e) == RoundToFloat(n, e)

(***************************************************************************)
(* Area.from_center, Area.center and Area.area_sqkm on floats.             *)
(***************************************************************************)
MaxRadiusExp == 11

\* 111.32, the km per degree of latitude
KmPerDegree == FloatLiteral(7295468, -16)

FloatOne == FloatLiteral(1, 0)

\* cos, sin (times 2^20) at the latitudes math.cos is evaluated near
CosTable ==
    [ k \in {0, 30, 45, 60, 64} |->
        CASE k = 0  -> [cos |-> 1048576, sin |-> 0]
          [] k = 30 -> [cos |-> 908093,  sin |-> 524288]
          [] k = 45 -> [cos |-> 741455,  sin |-> 741455]
          [] k = 60 -> [cos |-> 524288,  sin |-> 908093]
          [] k = 64 -> [cos |-> 459665,  sin |-> 942454] ]

\* math.cos(math.radians(x)): the float nearest to the cosine at a tabulated
\* latitude, and cos(k) - sin(k) * (|x| - k) * pi / 180 a rounding away from it
CosDeg(x) ==
    LET a  == FloatAbs(x)
        d(k) == FloatAbs(FloatSub(a, FloatLiteral(k, 0)))
        k  == CHOOSE j \in DOMAIN CosTable :
                  \A i \in DOMAIN CosTable : ~FloatLt(d(i), d(j))
        dx == FloatSub(a, FloatLiteral(k, 0))
        slope == FloatMul(FloatLiteral(CosTable[k].sin, -20),
                          FloatLiteral(292818, -24))
    IN  FloatSub(FloatLiteral(CosTable[k].cos, -20), FloatMul(slope, dx))

\* Area.__post_init__ raises ValueError (float bounds)
AreaPostInitRaises(a) ==
    \/ ~FloatLt(a.min_lon, a.max_lon)
    \/ ~FloatLt(a.min_lat, a.max_lat)

\* delta_lat of from_center
DeltaLat(radius_km) == FloatMul(radius_km, FloatDiv(FloatOne, KmPerDegree))

DeltaLonNoCos(latitude, radius_km) ==
    FloatMul(radius_km, FloatDiv(FloatOne, KmPerDegree))

\* delta_lon of from_center
DeltaLon(latitude, radius_km) ==
    FloatMul(radius_km,
             FloatDiv(FloatOne, FloatMul(KmPerDegree, CosDeg(latitude))))

\* The bounds Area.from_center hands to the constructor
FromCenter(latitude, longitude, radius_km) ==
    [ min_lon |-> FloatSub(longitude, DeltaLon(latitude, radius_km)),
      max_lon |-> FloatAdd(longitude, DeltaLon(latitude, radius_km)),
      min_lat |-> FloatSub(latitude, DeltaLat(radius_km)),
      max_lat |-> FloatAdd(latitude, DeltaLat(radius_km)) ]

\* Area.center: (latitude, longitude)
Center(a) ==
    << FloatHalf(FloatAdd(a.min_lat, a.max_lat)),
       FloatHalf(FloatAdd(a.min_lon, a.max_lon)) >>

\* Area.area_sqkm
AreaSqkm(a) ==
    LET center_lat == FloatHalf(FloatAdd(a.min_lat, a.max_lat))
        lat_km     == KmPerDegree
        lon_km     == FloatMul(KmPerDegree, CosDeg(center_lat))
        width_km   == FloatMul(FloatSub(a.max_lon, a.min_lon), lon_km)
        height_km  == FloatMul(FloatSub(a.max_lat, a.min_lat), lat_km)
    IN  FloatMul(width_km, height_km)

\* The centers and radii from_center is called with: latitudes at and next
\* to the tabulated ones, longitudes 0, 4.5, 127.5 and -170, radii 15 km
\* and the powers of two from 2^-8 km
CenterLatitudes ==
    { FloatLiteral(0, 0), FloatLiteral(30, 0), FloatLiteral(45, 0),
      FloatLiteral(-60, 0), FloatLiteral(255, -2) }

CenterLongitudes ==
    { FloatLiteral(0, 0), FloatLiteral(9, -1), FloatLiteral(255, -1),
      FloatLiteral(-170, 0) }

RadiusValues ==
    { FloatLiteral(15, 0) } \cup
    { FloatLiteral(1, k - 8) : k \in 0..(MaxRadiusExp + 8) }

CenterIdle ==
    /\ ctr_args = None
    /\ ctr_area = None
    /\ ctr_error = ""
    /\ ctr_center = None
    /\ ctr_sqkm = None

\* Area.from_center(name, latitude, longitude, radius_km)
CallFromCenter ==
    /\ ctr_args = None
    /\ \E latitude \in CenterLatitudes, longitude \in CenterLongitudes,
          radius_km \in RadiusValues :
          LET a == FromCenter(latitude, longitude, radius_km)
          IN  /\ ctr_args' = Some([latitude |-> latitude,
                                   longitude |-> longitude,
                                   radius_km |-> radius_km])
              /\ IF AreaPostInitRaises(a)
                 THEN ctr_area' = None /\ ctr_error' = "ValueError"
                 ELSE ctr_area' = Some(a) /\ ctr_error' = ""
    /\ UNCHANGED <<ctr_center, ctr_sqkm>>
    /\ UNCHANGED <<advVars, clock, timeVars, passVars, locVars, tblVars,
                   chkVars, costVars,
                   restVars>>

\* area.center
ReadCenter ==
    /\ ctr_area # None
    /\ ctr_center = None
    /\ ctr_center' = Some(Center(Val(ctr_area)))
    /\ UNCHANGED <<ctr_args, ctr_area, ctr_error, ctr_sqkm>>
    /\ UNCHANGED <<advVars, clock, timeVars, passVars, locVars, tblVars,
                   chkVars, costVars,
                   restVars>>

\* area.area_sqkm
ReadAreaSqkm ==
    /\ ctr_area # None
    /\ ctr_sqkm = None
    /\ ctr_sqkm' = Some(AreaSqkm(Val(ctr_area)))
    /\ UNCHANGED <<ctr_args, ctr_area, ctr_error, ctr_center>>
    /\ UNCHANGED <<advVars, clock, timeVars, passVars, locVars, tblVars,
                   chkVars, costVars,
                   restVars>>

(***************************************************************************)
(* WeatherService.get_weather and its two providers.  A response is what   *)
(* the network gives to one request: an exception (timeout, connection     *)
(* error, a body that is not JSON), a status other than 200, or a 200      *)
(* whose payload is complete, lacks the forecast list, or lacks another    *)
(* key the code indexes.                                                   *)
(***************************************************************************)
ProviderNames == {"openweathermap", "weatherapi"}

RequestNames == {"openweathermap.url", "openweathermap.forecast_url",
                 "weatherapi.forecast_url"}

ResponseKinds == {"exception", "non200", "ok", "no_list", "bad_payload"}

\* The snapshot a provider builds: its origin and whether it has a forecast
Snapshot(provider, forecast) == [provider |-> provider, forecast |-> forecast]

GetOpenWeatherMapNoKeyCheck(keys, net) ==
    IF net["openweathermap.url"] \in {"exception", "non200"}
    THEN [data |-> None, made |-> <<"openweathermap.url">>]
    ELSE LET f == net["openweathermap.forecast_url"]
             made == <<"openweathermap.url", "openweathermap.forecast_url">>
         IN  IF f \in {"exception", "bad_payload"}
                   \/ net["openweathermap.url"] = "bad_payload"
             THEN [data |-> None, made |-> made]
             ELSE [data |-> Some(Snapshot("openweathermap", f = "ok")),
                   made |-> made]

\* _get_openweathermap: the WeatherData or None it returns and the requests
\* it makes.  Without a key it returns None at once; an exception anywhere
\* in the try block gives None; the forecast is requested before the
\* payload of the first response is indexed; a forecast response other than
\* 200, and a forecast without "list", give a snapshot with an empty
\* forecast.
GetOpenWeatherMap(keys, net) ==
    IF ~keys["openweathermap"] THEN [data |-> None, made |-> <<>>]
    ELSE IF net["openweathermap.url"] \in {"exception", "non200"}
    THEN [data |-> None, made |-> <<"openweathermap.url">>]
    ELSE LET f == net["openweathermap.forecast_url"]
             made == <<"openweathermap.url", "openweathermap.forecast_url">>
         IN  IF f \in {"exception", "bad_payload"}
                   \/ net["openweathermap.url"] = "bad_payload"
             THEN [data |-> None, made |-> made]
             ELSE [data |-> Some(Snapshot("openweathermap", f = "ok")),
                   made |-> made]

\* _get_weatherapi: one request; every key of the payload is indexed, so
\* anything but a complete 200 gives None.
GetWeatherApi(keys, net) ==
    IF ~keys["weatherapi"] THEN [data |-> None, made |-> <<>>]
    ELSE IF net["weatherapi.forecast_url"] # "ok"
    THEN [data |-> None, made |-> <<"weatherapi.forecast_url">>]
    ELSE [data |-> Some(Snapshot("weatherapi", TRUE)),
          made |-> <<"weatherapi.forecast_url">>]

ServiceIdle ==
    /\ api_keys = [p \in ProviderNames |-> FALSE]
    /\ responses = [r \in RequestNames |-> "exception"]
    /\ svc_pc = "idle"
    /\ requests_made = <<>>
    /\ weather_data = None
    /\ svc_result = None
    /\ svc_error = ""

\* WeatherService.__init__ reads the keys from the environment
ServiceInit ==
    /\ api_keys \in [ProviderNames -> BOOLEAN]
    /\ responses \in [RequestNames -> ResponseKinds]
    /\ responses["openweathermap.url"] # "no_list"
    /\ responses["weatherapi.forecast_url"] # "no_list"
    /\ svc_pc = "start"
    /\ requests_made = <<>>
    /\ weather_data = None
    /\ svc_result = None
    /\ svc_error = ""

\* get_weather: weather_data = self._get_openweathermap(); if weather_data:
\* return weather_data
TryOpenWeatherMap ==
    /\ svc_pc = "start"
    /\ LET r == GetOpenWeatherMap(api_keys, responses)
       IN  /\ weather_data' = r.data
           /\ requests_made' = requests_made \o r.made
           /\ IF r.data # None
              THEN svc_pc' = "returned" /\ svc_result' = r.data
              ELSE svc_pc' = "fallback" /\ UNCHANGED svc_result
    /\ UNCHANGED <<api_keys, responses, svc_error>>
    /\ UNCHANGED <<advVars, clock, timeVars, passVars, locVars, tblVars,
                   chkVars, costVars, ctrVars, recVars, fmtVars>>

\* get_weather: weather_data = self._get_weatherapi(); if weather_data:
\* return weather_data; return None
TryWeatherApi ==
    /\ svc_pc = "fallback"
    /\ LET r == GetWeatherApi(api_keys, responses)
       IN  /\ weather_data' = r.data
           /\ requests_made' = requests_made \o r.made
           /\ svc_result' = r.data
    /\ svc_pc' = "returned"
    /\ UNCHANGED <<api_keys, responses, svc_error>>
    /\ UNCHANGED <<advVars, clock, timeVars, passVars, locVars, tblVars,
                   chkVars, costVars, ctrVars, recVars, fmtVars>>

(***************************************************************************)
(* calculate_next_passes called again on the same SatelliteMonitor.        *)
(***************************************************************************)
MaxRecalculations == 1

RecalculateKeepingPasses ==
    /\ mon_pc = "done"
    /\ recalculations < MaxRecalculations
    /\ \E h \in HoursAheadValues :
          /\ hours_ahead' = h
          /\ end_time' = clock + Hours(h)
    /\ passes' = passes_cache
    /\ now' = clock
    /\ idx' = 1
    /\ next_pass_time' = clock
    /\ mon_pc' = "loop"
    /\ recalculations' = recalculations + 1
    /\ earlier_passes' = passes_cache
    /\ UNCHANGED <<catalog, passes_cache>>
    /\ UNCHANGED <<advVars, clock, timeVars, locVars, tblVars, chkVars,
                   costVars, ctrVars, svcVars, fmtVars>>

\* A later call: passes = [], now and end_time are taken afresh, and the
\* cache keeps the list of the call before until this one returns.
Recalculate ==
    /\ mon_pc = "done"
    /\ recalculations < MaxRecalculations
    /\ \E h \in HoursAheadValues :
          /\ hours_ahead' = h
          /\ end_time' = clock + Hours(h)
    /\ passes' = <<>>
    /\ now' = clock
    /\ idx' = 1
    /\ next_pass_time' = clock
    /\ mon_pc' = "loop"
    /\ recalculations' = recalculations + 1
    /\ earlier_passes' = passes_cache
    /\ UNCHANGED <<catalog, passes_cache>>
    /\ UNCHANGED <<advVars, clock, timeVars, locVars, tblVars, chkVars,
                   costVars, ctrVars, svcVars, fmtVars>>

RecalculationIdle ==
    /\ recalculations = 0
    /\ earlier_passes = <<>>

(***************************************************************************)
(* SatelliteChecker.format_time_delta.  Datetimes are in seconds here; the *)
(* string it returns is the record of its form ("in" or "ago"), its number *)
(* and its unit.  hours is the float quotient of the code; for deltas of   *)
(* whole seconds int() of it is the integer quotient taken here.           *)
(***************************************************************************)
MaxDeltaDays == 2

FormatTimeDeltaInclusive(dt, t) ==
    LET delta == dt - t
        secs  == Abs(delta)
        form  == IF delta < 0 THEN "ago" ELSE "in"
    IN  IF secs <= 3600
        THEN [form |-> form, n |-> (secs * 60) \div 3600, unit |-> "m"]
        ELSE IF secs <= 24 * 3600
        THEN [form |-> form, n |-> secs \div 3600, unit |-> "h"]
        ELSE [form |-> form, n |-> secs \div (3600 * 24), unit |-> "d"]

\* The body of format_time_delta, `t` being the clock it samples
FormatTimeDelta(dt, t) ==
    LET delta == dt - t
        secs  == Abs(delta)
        form  == IF delta < 0 THEN "ago" ELSE "in"
    IN  IF secs < 3600
        THEN [form |-> form, n |-> (secs * 60) \div 3600, unit |-> "m"]
        ELSE IF secs < 24 * 3600
        THEN [form |-> form, n |-> secs \div 3600, unit |-> "h"]
        ELSE [form |-> form, n |-> secs \div (3600 * 24), unit |-> "d"]

\* The differences format_time_delta is called with: a second before, at
\* and after 0, one and two minutes, one and two hours, a day less an hour,
\* and 1..MaxDeltaDays days, in the past and in the future
DeltaSeconds ==
    { s * (b + e) : s \in {-1, 1}, e \in -1..1,
                    b \in {0, 60, 120, 3600, 7200, 82800}
                            \cup { 86400 * k : k \in 1..MaxDeltaDays } }

FormatIdle ==
    /\ fmt_dt = 0
    /\ fmt_now = 0
    /\ fmt_out = None

\* self.format_time_delta(dt)
CallFormatTimeDelta ==
    /\ \E d \in DeltaSeconds :
          /\ fmt_dt' = clock * 60 + d
          /\ fmt_now' = clock * 60
          /\ fmt_out' = Some(FormatTimeDelta(clock * 60 + d, clock * 60))
    /\ UNCHANGED <<advVars, clock, timeVars, passVars, locVars, tblVars,
                   chkVars, costVars, ctrVars, svcVars, recVars>>

(***************************************************************************)
(* The components added last are idle together.                            *)
(***************************************************************************)
RestIdle ==
    /\ ServiceIdle
    /\ RecalculationIdle
    /\ FormatIdle

(***************************************************************************)
(* The specifications, one per component; the other components are at      *)
(* rest.                                                                   *)
(***************************************************************************)
\* The `recommend` command.
Init ==
    /\ AdvisorInit
    /\ clock = 0
    /\ TimesIdle
    /\ PassesIdle
    /\ LocationIdle
    /\ TablesIdle
    /\ CheckerIdle
    /\ CostIdle
    /\ CenterIdle
    /\ RestIdle

Next ==
    \/ CliGetWeather
    \/ CliRecommend
    \/ RunGetWeather
    \/ RunNoWeather
    \/ RunRecommend

Spec == Init /\ [][Next]_vars

\* SatelliteChecker.calculate_times, called at any time.
TimesInit ==
    /\ AdvisorIdle
    /\ clock = 0
    /\ TimesIdle
    /\ PassesIdle
    /\ LocationIdle
    /\ TablesIdle
    /\ CheckerIdle
    /\ CostIdle
    /\ CenterIdle
    /\ RestIdle

TimesNext ==
    \/ Tick
    \/ CallCalculateTimes

SpecTimes == TimesInit /\ [][TimesNext]_vars

\* One call of SatelliteMonitor.calculate_next_passes.
MonitorInit ==
    /\ AdvisorIdle
    /\ clock = 0
    /\ TimesIdle
    /\ PassesInit
    /\ LocationIdle
    /\ TablesIdle
    /\ CheckerIdle
    /\ CostIdle
    /\ CenterIdle
    /\ RestIdle

MonitorNext ==
    \/ Tick
    \/ StartProjection
    \/ EmitPass
    \/ NextConstellation
    \/ FinishProjection

SpecMonitor == MonitorInit /\ [][MonitorNext]_vars

\* Locations and Areas constructed and assigned to.
LocationInit ==
    /\ AdvisorIdle
    /\ clock = 0
    /\ TimesIdle
    /\ PassesIdle
    /\ LocationIdle
    /\ TablesIdle
    /\ CheckerIdle
    /\ CostIdle
    /\ CenterIdle
    /\ RestIdle

LocationNext ==
    \/ NewLocation
    \/ SetLatitude
    \/ SetLongitude
    \/ NewArea

SpecLocation == LocationInit /\ [][LocationNext]_vars

\* Checkers and advisors constructed, and entries overridden through them.
TablesInit ==
    /\ AdvisorIdle
    /\ clock = 0
    /\ TimesIdle
    /\ PassesIdle
    /\ LocationIdle
    /\ TablesIdle
    /\ CheckerIdle
    /\ CostIdle
    /\ CenterIdle
    /\ RestIdle

TablesNext ==
    \/ NewChecker
    \/ NewAdvisor
    \/ SetEntryField
    \/ ReplaceEntry

SpecTables == TablesInit /\ [][TablesNext]_vars

\* One run of SatelliteChecker.run, once or in watch mode.
CheckerSpecInit ==
    /\ AdvisorIdle
    /\ clock = 0
    /\ TimesIdle
    /\ PassesIdle
    /\ LocationIdle
    /\ TablesIdle
    /\ CheckerInit
    /\ CostIdle
    /\ CenterIdle
    /\ RestIdle

CheckerNext ==
    \/ CreateSummaryTable
    \/ CreateNextAvailablePanel
    \/ CreateRecommendationsPanel
    \/ RefreshWeather

SpecChecker == CheckerSpecInit /\ [][CheckerNext]_vars

\* Cost estimates over the catalog, as shipped or with one more entry.
CostInit ==
    /\ AdvisorIdle
    /\ clock = 0
    /\ TimesIdle
    /\ PassesIdleOver(CatalogValues)
    /\ LocationIdle
    /\ TablesIdle
    /\ CheckerIdle
    /\ mon_area_sqkm \in AreaValues
    /\ est_args = None
    /\ est_cost = None
    /\ cov_args = None
    /\ costs = None
    /\ cov_error = ""
    /\ CenterIdle
    /\ RestIdle

CostNext ==
    \/ CallEstimateCost
    \/ EstimateTotalCoverageCost

SpecCost == CostInit /\ [][CostNext]_vars

\* Area.from_center and the two properties read off the Area it built
AreaInit ==
    /\ AdvisorIdle
    /\ clock = 0
    /\ TimesIdle
    /\ PassesIdle
    /\ LocationIdle
    /\ TablesIdle
    /\ CheckerIdle
    /\ CostIdle
    /\ CenterIdle
    /\ RestIdle

AreaNext ==
    \/ CallFromCenter
    \/ ReadCenter
    \/ ReadAreaSqkm

SpecArea == AreaInit /\ [][AreaNext]_vars

\* calculate_next_passes called once and, the clock moving, once more
RecalculationInit == MonitorInit

RecalculationNext ==
    \/ Tick
    \/ StartProjection
    \/ EmitPass
    \/ NextConstellation
    \/ FinishProjection
    \/ Recalculate

SpecRecalculation == RecalculationInit /\ [][RecalculationNext]_vars

\* format_time_delta called as the clock moves
FormatInit == TimesInit

FormatNext ==
    \/ Tick
    \/ CallFormatTimeDelta

SpecFormat == FormatInit /\ [][FormatNext]_vars

\* WeatherService.get_weather, for every configuration of keys and every
\* behaviour of the network
WeatherServiceInit ==
    /\ AdvisorIdle
    /\ clock = 0
    /\ TimesIdle
    /\ PassesIdle
    /\ LocationIdle
    /\ TablesIdle
    /\ CheckerIdle
    /\ CostIdle
    /\ CenterIdle
    /\ ServiceInit
    /\ RecalculationIdle
    /\ FormatIdle

WeatherServiceNext ==
    \/ TryOpenWeatherMap
    \/ TryWeatherApi

SpecWeatherService == WeatherServiceInit /\ [][WeatherServiceNext]_vars


(***************************************************************************)
(* Properties of the recommendation engine and its callers.                *)
(***************************************************************************)
Range(s) == { s[i] : i \in DOMAIN s }

CatalogIndex(name) == CHOOSE i \in DOMAIN AdvisorNames : AdvisorNames[i] = name

Returned == pc = "done" /\ engine_calls # <<>>

RecommendationOf(name) ==
    CHOOSE r \in Range(recommendations) : r.satellite_name = name

\* C1: the score of every Recommendation that get_recommendations returns
\* lies in [0, 100], for every table entry and every input combination.
C1_ScoreInRange ==
    \A i \in DOMAIN recommendations :
        /\ recommendations[i].score >= 0
        /\ recommendations[i].score <= 100

\* The clamp acted at both ends: overcast night with a budget of 0, one raw
\* score below 0 and one above 100.
C1_Witness ==
    /\ Returned
    /\ Val(weather).current_cloud_cover = MaxCloud
    /\ max_budget = Some(0)
    /\ \E i \in DOMAIN frames : frames[i].score < 0
    /\ \E i \in DOMAIN frames : frames[i].score > 100

\* C2: get_recommendations returns exactly one Recommendation per entry of
\* the table, each the one scored for that entry, ordered so that the scores
\* are non-increasing.
C2_OnePerEntrySorted ==
    Returned =>
        /\ Len(recommendations) = Len(AdvisorNames)
        /\ \A k \in DOMAIN AdvisorNames :
              /\ Cardinality({ i \in DOMAIN recommendations :
                    recommendations[i].satellite_name = AdvisorNames[k] }) = 1
              /\ Recommendation(frames[k]) \in Range(recommendations)
        /\ \A i \in 1..(Len(recommendations) - 1) :
              recommendations[i].score >= recommendations[i + 1].score

\* The sort moved entries: the last entry of the table (BlackSky) is ranked
\* above an earlier one, and the scores are not all equal.
C2_Witness ==
    /\ Returned
    /\ recommendations[Len(recommendations)].satellite_name
         # AdvisorNames[Len(AdvisorNames)]
    /\ recommendations[1].score > recommendations[Len(recommendations)].score

\* C3: the ranking is stable: two recommendations with the same clamped
\* score appear in the order of their entries in the table.
C3_StableRanking ==
    \A i, j \in DOMAIN recommendations :
        (i < j /\ recommendations[i].score = recommendations[j].score)
            => CatalogIndex(recommendations[i].satellite_name)
                 < CatalogIndex(recommendations[j].satellite_name)

\* Ties at both saturation points, between entries whose raw scores differ,
\* in a ranking the sort rearranged.
C3_Witness ==
    /\ Returned
    /\ \E i, j \in DOMAIN frames :
          i < j /\ frames[i].score < frames[j].score /\ frames[j].score < 0
    /\ \E i, j \in DOMAIN frames :
          i < j /\ frames[i].score > frames[j].score /\ frames[j].score > 100
    /\ \E i \in 1..(Len(recommendations) - 1) :
          CatalogIndex(recommendations[i].satellite_name)
            > CatalogIndex(recommendations[i + 1].satellite_name)

\* C4: a weather-independent (SAR) entry is weather_suitable under every
\* snapshot, gets the +30 all-weather bonus with its reason, and gets
\* neither a cloud term nor the daylight penalty.
C4_SarIgnoresWeather ==
    Returned =>
        \A k \in DOMAIN AdvisorNames :
            ADVISOR_SATELLITES[AdvisorNames[k]].weather_independent =>
                LET r == RecommendationOf(AdvisorNames[k])
                IN  /\ r.weather_suitable
                    /\ frames[k].score_weather = 100 + 30
                    /\ r.reasons[1] = "All-weather capability (SAR)"
                    /\ "Too cloudy" \notin Range(r.reasons)
                    /\ "Good cloud conditions" \notin Range(r.reasons)
                    /\ "Requires daylight" \notin Range(r.reasons)

\* The Sentinel-1 scenario: cloud cover 90 at night, area 100 km2.
C4_Witness ==
    /\ Returned
    /\ area_sqkm = 100
    /\ Val(weather) = [current_cloud_cover |-> 90, is_daylight |-> FALSE]
    /\ LET r == RecommendationOf("Sentinel-1")
       IN  /\ r.weather_suitable
           /\ r.score = 100
           /\ r.cost.free
    /\ \E r \in Range(recommendations) : ~r.weather_suitable

\* C5: get_recommendations is only invoked with a present snapshot; when the
\* weather service returns None the caller skips scoring and presents the
\* weather-independent fallback, and does not fail.
C5_CallersGuardAbsentWeather ==
    /\ \A i \in DOMAIN engine_calls : engine_calls[i] # None
    /\ error = ""
    /\ (pc = "done" /\ weather = None) => output = "no_weather_panel"

\* C16: for every constellation the engine scores, the cost it compares
\* with max_budget and renders in the `cost` field is the low end of that
\* constellation's cost_per_sqkm range in SATELLITE_CATALOG times area_sqkm.
C16_CostIsCatalogLowEnd ==
    Returned =>
        \A i \in DOMAIN frames :
            \A k \in DOMAIN SATELLITE_CATALOG :
                SATELLITE_CATALOG[k].name = frames[i].sat_name =>
                    LET low == SATELLITE_CATALOG[k].cost_per_sqkm[1] * area_sqkm
                    IN  /\ frames[i].cost = low
                        /\ RecommendationOf(frames[i].sat_name).cost = CostStr(low)

\* C17: in every Recommendation the quality is the bucket of the
\* recommendation's own clamped score: Excellent iff score >= 80, Good iff
\* 60 <= score < 80, Fair iff 40 <= score < 60, Poor iff score < 40.
C17_QualityOfClampedScore ==
    \A i \in DOMAIN recommendations :
        LET r == recommendations[i]
        IN  /\ r.estimated_quality = "Excellent" <=> r.score >= 80
            /\ r.estimated_quality = "Good" <=> (60 <= r.score /\ r.score < 80)
            /\ r.estimated_quality = "Fair" <=> (40 <= r.score /\ r.score < 60)
            /\ r.estimated_quality = "Poor" <=> r.score < 40

\* The quality was taken from a raw score outside [0, 100] at both ends,
\* and one score sits exactly on the threshold 60.
C17_Witness ==
    /\ Returned
    /\ \E i \in DOMAIN frames :
          frames[i].score > 100 /\ frames[i].quality = "Excellent"
    /\ \E i \in DOMAIN frames :
          frames[i].score < 0 /\ frames[i].quality = "Poor"
    /\ \E r \in Range(recommendations) :
          r.score = 60 /\ r.estimated_quality = "Good"

WorldViewScenario ==
    /\ Returned
    /\ area_sqkm = 100
    /\ Val(weather) = [current_cloud_cover |-> 80, is_daylight |-> TRUE]
    /\ max_budget = Some(10 * 1000)

\* C19: WorldView-3 scored for 100 km2 under cloud cover 80 in daylight with
\* a budget of $1000 is not weather_suitable, costs more than the budget,
\* has both the too-cloudy and the over-budget penalty among its reasons,
\* and ends with a score below 50.
C19_WorldViewScenario ==
    WorldViewScenario =>
        LET r == RecommendationOf("WorldView-3")
            fr == frames[CatalogIndex("WorldView-3")]
        IN  /\ ~r.weather_suitable
            /\ fr.cost > Val(max_budget)
            /\ fr.score_weather = 100 - 2 * (80 - 10)
            /\ fr.score_budget = fr.score_weather - 20
            /\ "Too cloudy" \in Range(r.reasons)
            /\ "Over budget" \in Range(r.reasons)
            /\ r.score < 50

\* The scenario with no resolution or urgency requirement: $2,500, score 0.
C19_Witness ==
    /\ WorldViewScenario
    /\ min_resolution = None
    /\ urgency_hours = None
    /\ LET r == RecommendationOf("WorldView-3")
       IN  /\ r.reasons = << "Too cloudy", "Over budget" >>
           /\ r.cost = [free |-> FALSE, dollars |-> 2500]
           /\ r.score = 0
           /\ r.estimated_quality = "Poor"

(***************************************************************************)
(* Properties of the pass-timing calculators.                              *)
(***************************************************************************)
\* C6: calculate_times floors the hours until the next pass at 0; a
\* satellite whose last pass is a full revisit interval or more ago has
\* next_pass = now and next_image_available = now + data_latency_hours, and
\* next_pass is never before now.
C6_NextPassFloored ==
    times # None =>
        LET d == Val(satellite_data)
            t == Val(times)
        IN  /\ t.next_pass >= t.now
            /\ d.last_pass_hours_ago >= d.revisit_days * 24 =>
                  /\ t.next_pass = t.now
                  /\ t.next_image_available = t.now + Hours(d.data_latency_hours)
            /\ d.last_pass_hours_ago < d.revisit_days * 24 =>
                  t.next_pass
                    = t.now + Hours(d.revisit_days * 24 - d.last_pass_hours_ago)

\* A daily satellite last seen 36 h ago, asked about after the clock moved.
C6_Witness ==
    /\ times # None
    /\ Val(satellite_data).revisit_days = 1
    /\ Val(satellite_data).last_pass_hours_ago = 36
    /\ Val(satellite_data).data_latency_hours = 3
    /\ Val(times).now = TickMinutes
    /\ Val(times).next_pass = Val(times).now
    /\ Val(times).next_image_available = Val(times).now + Hours(3)

\* The tuple calculate_times returns
Timestamps(t) == <<t.last_image_available, t.next_pass, t.next_image_available>>

\* C13: the timestamps calculate_times produces depend only on the entry and
\* on a reference time its caller supplies: a call made with the same entry
\* as the call before it returns the same three timestamps, however far the
\* system clock moved in between.
C13_TimingIsDeterministic ==
    [][ (times # None /\ times' # None /\ satellite_data' = satellite_data)
            => Timestamps(Val(times')) = Timestamps(Val(times)) ]_vars

SpecsOf(n) == catalog[CHOOSE k \in DOMAIN catalog : catalog[k].name = n]

\* C7: when calculate_next_passes meets a constellation whose revisit
\* interval is zero or negative it fails with InvalidConstellation instead of
\* looping: no pass is ever emitted for such a constellation.
C7_InvalidRevisitFailsFast ==
    \A i \in DOMAIN passes :
        SpecsOf(passes[i].constellation).revisit_time_days > 0

\* The least n >= 0 with n * r >= h, for r > 0.
LeastCount(r, h) ==
    CHOOSE n \in 0..Max(0, h) : n * r >= h /\ (n = 0 \/ (n - 1) * r < h)

\* C8: for a constellation with a positive revisit interval the while loop
\* emits the passes now + k * revisit_hours, k = 0 .. n-1, n the least count
\* with n * revisit_hours >= hours_ahead, and then ends; every pass is at or
\* after now and strictly before now + hours_ahead; none for hours_ahead <= 0.
C8_EvenlySpacedPasses ==
    mon_pc # "idle" =>
        \A k \in DOMAIN catalog :
            catalog[k].revisit_time_days > 0 =>
                LET r == RevisitDelta(catalog[k])
                    n == LeastCount(r, Hours(hours_ahead))
                    emitted == PassesOf(passes, catalog[k].name)
                IN  /\ Len(emitted) <= n
                    /\ \A j \in DOMAIN emitted :
                          /\ emitted[j].pass_time = now + (j - 1) * r
                          /\ emitted[j].pass_time >= now
                          /\ emitted[j].pass_time < now + Hours(hours_ahead)
                    /\ (mon_pc = "loop" /\ idx = k /\ Len(emitted) < n)
                          => /\ next_pass_time < end_time
                             /\ Len(emitted) < MaxPassesPerConstellation
                    /\ (mon_pc = "loop" /\ idx = k /\ Len(emitted) = n)
                          => next_pass_time >= end_time
                    /\ (mon_pc = "done" \/ idx > k) => Len(emitted) = n
                    /\ hours_ahead <= 0 => n = 0

\* A projection over 36 h from a moved clock is done: two passes of the
\* 1.1-day WorldView-2, three of the registered half-day constellation, one
\* of Sentinel-1.
C8_Witness ==
    /\ mon_pc = "done"
    /\ hours_ahead = 36
    /\ now = TickMinutes
    /\ Len(PassesOf(passes, "WorldView-2")) = 2
    /\ Len(PassesOf(passes, "Custom")) = 3
    /\ Len(PassesOf(passes, "Sentinel-1")) = 1

(***************************************************************************)
(* Properties of Location and Area.                                        *)
(***************************************************************************)
\* C9: constructing a Location fails, and produces no object, when the
\* latitude is outside [-90, 90] or the longitude outside [-180, 180], and
\* succeeds with the values as given otherwise, the exact boundaries
\* included; constructing an Area fails when min_lon >= max_lon or
\* min_lat >= max_lat, min = max included.
C9_ConstructionValidates ==
    /\ (loc_args # None /\ loc_fresh) =>
          LET a == Val(loc_args)
          IN  IF /\ a.latitude >= -90 /\ a.latitude <= 90
                 /\ a.longitude >= -180 /\ a.longitude <= 180
              THEN location = Some(a) /\ loc_error = ""
              ELSE location = None /\ loc_error = "ValueError"
    /\ area_args # None =>
          LET a == Val(area_args)
          IN  IF a.min_lon < a.max_lon /\ a.min_lat < a.max_lat
              THEN area = Some(a) /\ area_error = ""
              ELSE area = None /\ area_error = "ValueError"

\* A Location built at the corner (90, -180), and an Area refused for
\* min_lon = max_lon.
C9_Witness ==
    /\ loc_fresh
    /\ location = Some([latitude |-> 90, longitude |-> -180])
    /\ area_args # None
    /\ Val(area_args).min_lon = Val(area_args).max_lon
    /\ Val(area_args).min_lat < Val(area_args).max_lat
    /\ area = None
    /\ area_error = "ValueError"

\* C10: a Location is immutable after creation: whatever is done to it, its
\* fields hold the values given at construction, within the ranges.
C10_LocationImmutable ==
    location # None =>
        /\ Val(location) = Val(loc_args)
        /\ Val(location).latitude >= -90 /\ Val(location).latitude <= 90
        /\ Val(location).longitude >= -180 /\ Val(location).longitude <= 180

(***************************************************************************)
(* Properties of the shared tables.                                        *)
(***************************************************************************)
\* C11: the process-wide tables are never changed: after any sequence of
\* constructions and per-instance overrides, DEFAULT_SATELLITES and
\* ADVISOR_SATELLITES read as they did at import, and so does the mapping
\* of every instance through which no override was made.
C11_SharedTablesNeverChange ==
    /\ View(default_refs) = DEFAULT_SATELLITES
    /\ View(advisor_refs) = ADVISOR_SATELLITES
    /\ \A i \in DOMAIN instances :
          i \notin overriding =>
              View(instances[i].satellites)
                = IF instances[i].kind = "checker"
                  THEN DEFAULT_SATELLITES ELSE ADVISOR_SATELLITES

(***************************************************************************)
(* Properties of SatelliteChecker.run.                                     *)
(***************************************************************************)
\* C12: within one display cycle (a refresh_weather, where there is one, and
\* the _display_all after it) the weather provider is asked at most once,
\* whatever it returned, and the summary table and the recommendations panel
\* of the cycle are built from the same result.
C12_OneFetchPerCycle ==
    /\ fetches <= 1
    /\ chk_pc = "displayed" => panel_weather = table_weather

RowOf(name) == (CHOOSE i \in DOMAIN table : table[i].name = name)

\* C14: with the snapshot absent, create_summary_table marks every
\* weather-independent satellite "yes" and every other one "unknown", a row
\* for each satellite; the recommendations panel built without a snapshot
\* is the no-weather panel; and the display completes.
C14_AbsentWeatherIsUnknown ==
    /\ (chk_pc \in {"table", "upcoming", "displayed"} /\ table_weather = None) =>
          /\ Len(table) = Len(DefaultNames)
          /\ \A i \in DOMAIN DefaultNames :
                table[RowOf(DefaultNames[i])].weather_ok
                  = IF DEFAULT_SATELLITES[DefaultNames[i]].weather_independent
                    THEN "yes" ELSE "unknown"
    /\ (chk_pc = "displayed" /\ panel_weather = None) =>
          /\ panel # None
          /\ Val(panel).conditions = "no_weather"

\* A display completed with no snapshot at either request: three "yes" rows
\* (the SAR satellites), seven "unknown", and the no-weather panel.
C14_Witness ==
    /\ chk_pc = "displayed"
    /\ table_weather = None
    /\ panel_weather = None
    /\ Cardinality({ i \in DOMAIN table : table[i].weather_ok = "yes" }) = 3
    /\ Cardinality({ i \in DOMAIN table : table[i].weather_ok = "unknown" }) = 7
    /\ Val(panel).title = "Recommendations"

(***************************************************************************)
(* Properties of the cost estimates.                                       *)
(***************************************************************************)
\* C15: for every entry of SATELLITE_CATALOG with free_tier true,
\* estimate_cost(area) is (0, 0) for every area; in the catalog free_tier is
\* true only for entries whose cost_per_sqkm range is (0, 0).
C15_FreeTierCostsNothing ==
    /\ \A k \in DOMAIN catalog :
          catalog[k].free_tier => catalog[k].cost_per_sqkm = <<0, 0>>
    /\ (est_cost # None /\ SpecsOf(Val(est_args).name).free_tier)
          => Val(est_cost) = <<0, 0>>

\* Landsat-9 (free) estimated over 100 km2.
C15_Witness ==
    /\ est_cost # None
    /\ Val(est_args) = [name |-> "Landsat-9", area_sqkm |-> 100]
    /\ SpecsOf("Landsat-9").free_tier
    /\ Val(est_cost) = <<0, 0>>

\* C18: estimate_total_coverage_cost returns an entry for a constellation
\* if and only if its resolution_m <= the requested resolution and its
\* revisit_time_days <= frequency_days; a free constellation whose revisit
\* time exceeds frequency_days is absent from the result.
C18_CoverageFilter ==
    costs # None =>
        LET a == Val(cov_args)
        IN  /\ \A k \in DOMAIN catalog :
                  (catalog[k].name \in DOMAIN Val(costs))
                    <=> /\ catalog[k].resolution_m <= a.resolution_m
                        /\ catalog[k].revisit_time_days <= 10 * a.frequency_days
            /\ \A n \in DOMAIN Val(costs) :
                  \E k \in DOMAIN catalog : catalog[k].name = n

\* Resolution 5 m, daily, one month: the free 5 m / 6-day Sentinel-1 is left
\* out, paid daily constellations are returned.
C18_Witness ==
    /\ costs # None
    /\ Val(cov_args).resolution_m = 500
    /\ Val(cov_args).frequency_days = 1
    /\ Val(cov_args).duration_months = 1
    /\ SpecsOf("Sentinel-1").free_tier
    /\ "Sentinel-1" \notin DOMAIN Val(costs)
    /\ "WorldView-3" \in DOMAIN Val(costs)
    /\ \A n \in DOMAIN Val(costs) : ~SpecsOf(n).free_tier

(***************************************************************************)
(* Properties of Area.from_center.                                         *)
(***************************************************************************)
\* n1 * 2^e1 <= n2 * 2^e2 for naturals n1 and n2, compared exactly
ExactLeq(n1, e1, n2, e2) ==
    IF n1 = 0 THEN TRUE
    ELSE IF n2 = 0 THEN FALSE
    ELSE LET t1 == BitLen(n1) + e1
             t2 == BitLen(n2) + e2
             lo == Min(e1, e2)
         IN  IF t1 # t2 THEN t1 < t2
             ELSE n1 * 2^(e1 - lo) <= n2 * 2^(e2 - lo)

\* |x - y| as <<n, e>>, the number n * 2^e, without rounding
ExactDist(x, y) ==
    IF x.m = 0 THEN <<Abs(y.m), y.e>>
    ELSE IF y.m = 0 THEN <<Abs(x.m), x.e>>
    ELSE LET lo == Min(x.e, y.e)
         IN  <<Abs(x.m * 2^(x.e - lo) - y.m * 2^(y.e - lo)), lo>>

\* The exponent of the spacing of the floats at the larger of |x| and |y|
SpacingExp(x, y) == IF FloatLt(FloatAbs(x), FloatAbs(y)) THEN y.e ELSE x.e

\* x is within n spacings (at the larger of |lo| and |hi|) of y
WithinSpacings(x, y, n, lo, hi) ==
    ExactLeq(ExactDist(x, y)[1], ExactDist(x, y)[2], n, SpacingExp(lo, hi))

\* The half-side d is at least n spacings of the bounds lo and hi
Spans(d, n, lo, hi) == ExactLeq(n, SpacingExp(lo, hi), Abs(d.m), d.e)

\* The half-side d is at most half the spacing of the floats at x # 0
LostIn(d, x) == x.m # 0 /\ ExactLeq(2 * Abs(d.m), d.e, 1, x.e)

CtrLat == Val(ctr_args).latitude

CtrLon == Val(ctr_args).longitude

CtrRadius == Val(ctr_args).radius_km

\* Both half-sides of the box span at least 16 spacings of its bounds
Resolved(latitude, longitude, radius_km) ==
    LET a == FromCenter(latitude, longitude, radius_km)
    IN  /\ Spans(DeltaLat(radius_km), 16, a.min_lat, a.max_lat)
        /\ Spans(DeltaLon(latitude, radius_km), 16, a.min_lon, a.max_lon)

\* s = 4 * r^2
IsFourRSquared(s, r) ==
    /\ ExactLeq(Abs(s.m), s.e, 4 * r.m * r.m, 2 * r.e)
    /\ ExactLeq(4 * r.m * r.m, 2 * r.e, Abs(s.m), s.e)

\* |s - 4 * r^2| <= 4 * r^2 / 8
NearFourRSquared(s, r) ==
    /\ s.m > 0
    /\ ExactLeq(7 * 4 * r.m * r.m, 2 * r.e, 8 * s.m, s.e)
    /\ ExactLeq(8 * s.m, s.e, 9 * 4 * r.m * r.m, 2 * r.e)

\* The area_sqkm of the box from_center builds around the same center with
\* radius r is defined and larger than s
LargerAt(r, s) ==
    LET a == FromCenter(CtrLat, CtrLon, r)
    IN  ~AreaPostInitRaises(a) /\ FloatLt(s, AreaSqkm(a))

C21_KeepsLastSnapshot ==
    [][current_weather # None => current_weather' # None]_vars

(***************************************************************************)
(* Properties of WeatherService.get_weather.                               *)
(***************************************************************************)
ProviderOf(request) ==
    IF request = "weatherapi.forecast_url" THEN "weatherapi"
    ELSE "openweathermap"

Requested(request) == \E i \in DOMAIN requests_made : requests_made[i] = request

\* The snapshot came from this provider
SnapshotFrom(w, provider) == w # None /\ Val(w).provider = provider

\* What C22 and its amendment share: get_weather does not raise; a provider
\* without a key is never requested; WeatherAPI is requested only after
\* OpenWeatherMap gave no snapshot; and the result is the first snapshot
\* obtained, or the absent value.
ServiceContract ==
    /\ svc_error = ""
    /\ \A i \in DOMAIN requests_made : api_keys[ProviderOf(requests_made[i])]
    /\ svc_pc = "returned" =>
          /\ Requested("weatherapi.forecast_url") =>
                ~SnapshotFrom(svc_result, "openweathermap")
          /\ svc_result = weather_data
          /\ (~api_keys["openweathermap"] /\ ~api_keys["weatherapi"]) =>
                svc_result = None
          /\ (api_keys["weatherapi"]
                /\ ~SnapshotFrom(svc_result, "openweathermap")) =>
                /\ Requested("weatherapi.forecast_url")
                /\ svc_result # None
                     <=> responses["weatherapi.forecast_url"] = "ok"

\* C22 as stated: besides the above, any failure of a request of a provider
\* (an exception, a status other than 200, a payload that is not complete)
\* counts as no snapshot for that provider.
C22_AnyFailureIsNoSnapshot ==
    /\ ServiceContract
    /\ svc_pc = "returned" =>
          \A r \in RequestNames :
              (Requested(r) /\ responses[r] # "ok") =>
                  ~SnapshotFrom(svc_result, ProviderOf(r))

\* C22, amended: besides the above, a failure of a provider counts as no
\* snapshot for it, except that OpenWeatherMap still gives a snapshot, with
\* an empty forecast, when its current-weather request succeeds and its
\* forecast request answers with a status other than 200 or without a
\* forecast list.
C22_FailureIsNoSnapshotButForecast ==
    /\ ServiceContract
    /\ svc_pc = "returned" =>
          /\ \A r \in RequestNames \ {"openweathermap.forecast_url"} :
                (Requested(r) /\ responses[r] # "ok") =>
                    ~SnapshotFrom(svc_result, ProviderOf(r))
          /\ api_keys["openweathermap"] =>
                /\ Requested("openweathermap.url")
                /\ Requested("openweathermap.forecast_url")
                     <=> responses["openweathermap.url"] \in {"ok", "bad_payload"}
                /\ SnapshotFrom(svc_result, "openweathermap")
                     <=> /\ responses["openweathermap.url"] = "ok"
                         /\ responses["openweathermap.forecast_url"]
                              \in {"ok", "non200", "no_list"}
                /\ SnapshotFrom(svc_result, "openweathermap") =>
                     (Val(svc_result).forecast
                        <=> responses["openweathermap.forecast_url"] = "ok")

\* OpenWeatherMap failed at its first request, WeatherAPI was asked and gave
\* the snapshot that get_weather returned.
C22_Witness ==
    /\ svc_pc = "returned"
    /\ api_keys["openweathermap"]
    /\ responses["openweathermap.url"] = "non200"
    /\ requests_made = <<"openweathermap.url", "weatherapi.forecast_url">>
    /\ SnapshotFrom(svc_result, "weatherapi")

(***************************************************************************)
(* Properties of passes_cache.                                             *)
(***************************************************************************)
\* The passes of one constellation a call that returns has emitted: at
\* now + k * revisit_hours, k = 0 .. n-1, none for hours_ahead <= 0
ExpectedPasses(specs) ==
    LET r == RevisitDelta(specs)
        n == IF Hours(hours_ahead) <= 0 THEN 0
             ELSE LeastCount(r, Hours(hours_ahead))
    IN  [ j \in 1..n |-> [ constellation |-> specs.name,
                           pass_time |-> now + (j - 1) * r ] ]

\* C23: after every call of calculate_next_passes that returns,
\* passes_cache is exactly the list the call returned; it holds the passes
\* of this call and no other (those of earlier calls are discarded); and it
\* is in non-decreasing pass_time order across all constellations.
C23_CacheIsLatestSorted ==
    mon_pc = "done" =>
        /\ passes_cache = passes
        /\ \A k \in DOMAIN catalog :
              PassesOf(passes_cache, catalog[k].name)
                = ExpectedPasses(catalog[k])
        /\ \A i \in DOMAIN passes_cache :
              \E k \in DOMAIN catalog :
                  passes_cache[i].constellation = catalog[k].name
        /\ \A i \in 1..(Len(passes_cache) - 1) :
              passes_cache[i].pass_time <= passes_cache[i + 1].pass_time

\* A second call returned after the clock moved: the cache held passes when
\* it began, holds passes now, none of them one of the earlier ones, and
\* the sort interleaved two constellations.
C23_Witness ==
    /\ mon_pc = "done"
    /\ recalculations = 1
    /\ earlier_passes # <<>>
    /\ passes_cache # <<>>
    /\ Range(earlier_passes) \cap Range(passes_cache) = {}
    /\ \E i \in 1..(Len(passes_cache) - 2) :
          /\ passes_cache[i].constellation = passes_cache[i + 2].constellation
          /\ passes_cache[i].constellation # passes_cache[i + 1].constellation

(***************************************************************************)
(* Properties of the score: the four terms of the scoring loop.            *)
(***************************************************************************)
\* W: the weather term
TermW(sat, w) ==
    IF sat.weather_independent THEN 30
    ELSE (IF w.current_cloud_cover <= sat.min_cloud_ok THEN 20
          ELSE -2 * (w.current_cloud_cover - sat.min_cloud_ok))
         + (IF sat.requires_daylight /\ ~w.is_daylight THEN -50 ELSE 0)

\* B: the budget term
TermB(cost, budget) ==
    IF budget # None /\ cost > Val(budget) THEN -20
    ELSE IF cost = 0 THEN 15
    ELSE 0

\* R: the resolution term
TermR(sat, resolution) ==
    IF resolution # None /\ sat.resolution_m > Val(resolution) THEN -15 ELSE 0

\* U: the urgency term
TermU(eta, urgency) ==
    IF urgency # None /\ eta > Val(urgency) THEN -25
    ELSE IF eta <= 24 THEN 10
    ELSE 0

\* The blocks of the scoring loop applied to a frame in the order `order`
RECURSIVE ApplyChecks(_, _, _)
ApplyChecks(order, f, sat) ==
    IF order = <<>> THEN f
    ELSE LET g == ApplyChecks(SubSeq(order, 1, Len(order) - 1), f, sat)
             b == order[Len(order)]
         IN  CASE b = "weather" -> WeatherCheck(g, sat, Val(weather))
               [] b = "budget" ->
                    BudgetCheck(g, sat.cost_per_sqkm * area_sqkm, max_budget)
               [] b = "resolution" -> ResolutionCheck(g, sat, min_resolution)
               [] b = "urgency" ->
                    UrgencyCheck(g, sat.revisit_hours + sat.data_latency_hours,
                                 urgency_hours)

\* The order of the source reversed, and its three rotations
CheckOrders ==
    { <<"urgency", "resolution", "budget", "weather">>,
      <<"budget", "resolution", "urgency", "weather">>,
      <<"resolution", "urgency", "weather", "budget">>,
      <<"urgency", "weather", "budget", "resolution">> }

\* C24: the score of every Recommendation is
\* max(0, min(100, 100 + W + B + R + U)) with the four terms as above, eta
\* the sum of revisit_hours and data_latency_hours, and the blocks of the
\* loop applied in another order (the reverse, a rotation) give the same
\* number.
C24_ScoreIsClampedSum ==
    Returned =>
        \A k \in DOMAIN AdvisorNames :
            LET sat == ADVISOR_SATELLITES[AdvisorNames[k]]
                eta == sat.revisit_hours + sat.data_latency_hours
                sum == 100 + TermW(sat, Val(weather))
                           + TermB(sat.cost_per_sqkm * area_sqkm, max_budget)
                           + TermR(sat, min_resolution)
                           + TermU(eta, urgency_hours)
                f0  == [score |-> 100, reasons |-> <<>>,
                        weather_suitable |-> TRUE]
            IN  /\ RecommendationOf(AdvisorNames[k]).score
                     = Max(0, Min(100, sum))
                /\ RecommendationOf(AdvisorNames[k]).eta_hours = eta
                /\ \A o \in CheckOrders :
                      ApplyChecks(o, f0, sat).score = sum

\* Every term acted and nothing was clamped: cloud cover 40 by day, a
\* budget of 1000 dollars over 100 km2, 0.3 m wanted within 25 hours gives
\* WorldView-3 100 - 60 - 20 - 15 - 25 = -20 before the clamp and 0 after, and
\* Sentinel-1 100 + 30 + 15 - 15 - 25 = 105 before and 100 after, and BlackSky
\* 100 - 30 - 15 = 55 (within budget, its eta of 25 hours is not too slow).
C24_Witness ==
    /\ Returned
    /\ Val(weather) = [current_cloud_cover |-> 40, is_daylight |-> TRUE]
    /\ area_sqkm = 100
    /\ max_budget = Some(10000)
    /\ min_resolution = Some(30)
    /\ urgency_hours = Some(25)
    /\ RecommendationOf("WorldView-3").score = 0
    /\ RecommendationOf("Sentinel-1").score = 100
    /\ RecommendationOf("BlackSky").score = 55

(***************************************************************************)
(* Properties of the weather and budget blocks of the scoring loop.        *)
(***************************************************************************)
FrameOf(name) == frames[CatalogIndex(name)]

HasReason(name, reason) ==
    \E i \in DOMAIN FrameOf(name).reasons : FrameOf(name).reasons[i] = reason

\* C25: for every entry that is not weather-independent, weather_suitable
\* is true exactly when the cloud cover is at most the entry's threshold and
\* the entry does not require daylight or it is day; the cloud term and the
\* daylight term accumulate (a too-cloudy night gets the cloud penalty and
\* -50); a cloud cover equal to the threshold is good conditions (+20).
C25_WeatherSuitable ==
    Returned =>
        \A k \in DOMAIN AdvisorNames :
            LET n   == AdvisorNames[k]
                sat == ADVISOR_SATELLITES[n]
                w   == Val(weather)
                cloudy == w.current_cloud_cover > sat.min_cloud_ok
                dark   == sat.requires_daylight /\ ~w.is_daylight
            IN  ~sat.weather_independent =>
                  /\ RecommendationOf(n).weather_suitable
                       <=> (w.current_cloud_cover <= sat.min_cloud_ok
                              /\ (~sat.requires_daylight \/ w.is_daylight))
                  /\ FrameOf(n).score_weather
                       = 100 + (IF cloudy
                                THEN -2 * (w.current_cloud_cover - sat.min_cloud_ok)
                                ELSE 20)
                             + (IF dark THEN -50 ELSE 0)
                  /\ HasReason(n, "Too cloudy") <=> cloudy
                  /\ HasReason(n, "Good cloud conditions") <=> ~cloudy
                  /\ HasReason(n, "Requires daylight") <=> dark
                  /\ w.current_cloud_cover = sat.min_cloud_ok =>
                        FrameOf(n).score_weather = 120 - (IF dark THEN 50 ELSE 0)

\* A night with cloud cover 20: PlanetScope, at its threshold, has +20 and
\* -50 and is not suitable; WorldView-3, 10 over its threshold, has -20 and
\* -50.
C25_Witness ==
    /\ Returned
    /\ Val(weather) = [current_cloud_cover |-> 20, is_daylight |-> FALSE]
    /\ FrameOf("PlanetScope").score_weather = 70
    /\ ~RecommendationOf("PlanetScope").weather_suitable
    /\ FrameOf("WorldView-3").score_weather = 30
    /\ HasReason("WorldView-3", "Too cloudy")
    /\ HasReason("WorldView-3", "Requires daylight")

C28_NeverFastDelivery ==
    /\ \A k \in DOMAIN AdvisorNames :
          ADVISOR_SATELLITES[AdvisorNames[k]].revisit_hours
            + ADVISOR_SATELLITES[AdvisorNames[k]].data_latency_hours > 24
    /\ Returned =>
          \A k \in DOMAIN AdvisorNames :
              LET n     == AdvisorNames[k]
                  delta == FrameOf(n).score - FrameOf(n).score_resolution
              IN  /\ RecommendationOf(n).eta_hours > 24
                  /\ ~HasReason(n, "Fast delivery")
                  /\ delta \in {0, -25}
                  /\ (urgency_hours # None /\ Val(urgency_hours) <= 24) =>
                        (HasReason(n, "Too slow") /\ delta = -25)

\* With 25 hours allowed Capella, whose eta is 25, is neither too slow nor
\* fast: its urgency term is 0, while WorldView-3 (36 hours) is too slow.
C28_Witness ==
    /\ Returned
    /\ urgency_hours = Some(25)
    /\ RecommendationOf("Capella").eta_hours = 25
    /\ FrameOf("Capella").score = FrameOf("Capella").score_resolution
    /\ ~HasReason("Capella", "Too slow")
    /\ HasReason("WorldView-3", "Too slow")

(***************************************************************************)
(* Properties of format_time_delta.                                        *)
(***************************************************************************)
\* C27: format_time_delta renders the difference d between dt and the
\* reference time with a truncated integer magnitude and thresholds at
\* exactly 1 hour and 24 hours: whole minutes for |d| < 1 h, whole hours
\* for 1 h <= |d| < 24 h, whole days from 24 h on; "N ago" for d < 0 and
\* "in N" for d >= 0, d = 0 included.
C27_FormatTimeDelta ==
    fmt_out # None =>
        LET d    == fmt_dt - fmt_now
            a    == IF d < 0 THEN -d ELSE d
            out  == Val(fmt_out)
            size == CASE out.unit = "m" -> 60
                      [] out.unit = "h" -> 3600
                      [] out.unit = "d" -> 86400
        IN  /\ out.form = (IF d < 0 THEN "ago" ELSE "in")
            /\ out.unit = (IF a < 3600 THEN "m"
                           ELSE IF a < 86400 THEN "h" ELSE "d")
            /\ out.n >= 0
            /\ out.n * size <= a
            /\ a < (out.n + 1) * size

\* A second short of two hours ago is "1h ago": the magnitude is truncated
\* and the clock has moved since the start.
C27_Witness ==
    /\ fmt_out = Some([form |-> "ago", n |-> 1, unit |-> "h"])
    /\ fmt_dt - fmt_now = -7199
    /\ fmt_now > 0

(***************************************************************************)
(* Properties of the timestamps of calculate_times.                        *)
(***************************************************************************)
\* C29: for every satellite record with last_pass_hours_ago >= 0 and
\* data_latency_hours >= 0 the timestamps calculate_times returns satisfy
\* now <= next_pass <= next_image_available, next_image_available is
\* data_latency_hours after next_pass, and last_image_available is not
\* after next_image_available.
C29_TimestampsOrdered ==
    times # None =>
        LET d == Val(satellite_data)
            t == Val(times)
        IN  (d.last_pass_hours_ago >= 0 /\ d.data_latency_hours >= 0) =>
              /\ t.now <= t.next_pass
              /\ t.next_pass <= t.next_image_available
              /\ t.next_image_available - t.next_pass
                   = Hours(d.data_latency_hours)
              /\ t.last_image_available <= t.next_image_available

\* Landsat-9 (16 days, last pass 120 h ago, a day of latency) after the
\* clock moved: the last image has been available for 96 hours, the next
\* pass is 264 hours away and its image a day later.
C29_Witness ==
    /\ times # None
    /\ Val(satellite_data) = TimingFields(DEFAULT_SATELLITES["Landsat-9"])
    /\ Val(times).now = TickMinutes
    /\ Val(times).last_image_available = Val(times).now - Hours(96)
    /\ Val(times).next_pass = Val(times).now + Hours(264)
    /\ Val(times).next_image_available = Val(times).now + Hours(288)

(***************************************************************************)
(* The weather-OK label of the summary table and the classification of     *)
(* WeatherData.                                                            *)
(***************************************************************************)
\* C30: for every cloud cover in 0..100 and every daylight flag, the label
\* create_summary_table gives a weather-dependent satellite agrees with the
\* classification WeatherData gives the same snapshot: "yes" exactly when
\* is_good_for_optical, "marginal" exactly when is_marginal_for_optical,
\* "no" exactly when is_poor_for_optical, the three predicates being
\* mutually exclusive and exhaustive.
C30_LabelAgreesWithWeatherData ==
    (chk_pc \in {"table", "upcoming", "displayed"} /\ table_weather # None) =>
        LET w == Val(table_weather)
        IN  /\ Cardinality({ p \in { <<1, IsGoodForOptical(w)>>,
                                     <<2, IsMarginalForOptical(w)>>,
                                     <<3, IsPoorForOptical(w)>> } : p[2] }) = 1
            /\ \A i \in DOMAIN DefaultNames :
                  ~DEFAULT_SATELLITES[DefaultNames[i]].weather_independent =>
                     LET label == table[RowOf(DefaultNames[i])].weather_ok
                     IN  /\ label = "yes" <=> IsGoodForOptical(w)
                         /\ label = "marginal" <=> IsMarginalForOptical(w)
                         /\ label = "no" <=> IsPoorForOptical(w)

=============================================================================
